---------------------------- MODULE Spec2Model ----------------------------
(***************************************************************************)
(* async-helpers: asynchronous template helpers behind synchronous         *)
(* placeholder tokens.                                                     *)
(*                                                                         *)
(* Two implementations of the same design live in the repository and both  *)
(* are modelled; the variable `variant` says which one an instance is:     *)
(*   "promise"  the async/await class (src/unnamed/part_002, 428-606):     *)
(*              helper / wrapHelper / resolveId / resolveIds;              *)
(*   "co"       the generator class (src/src/index.ts, 153-606):           *)
(*              set / get / wrapper / reset / resolveId / resolveIds.      *)
(*                                                                         *)
(* JavaScript values are tagged records, strings are sequences of cells    *)
(* (a character, or the text of one async id), so that search, replace,    *)
(* property-key coercion and String() are computed and not assumed.        *)
(***************************************************************************)
EXTENDS Integers, Sequences, FiniteSets, TLC

(***************************************************************************)
(* Bounds of the model.                                                    *)
(***************************************************************************)
MaxCalls == 2       \* wrapped-helper invocations in one behaviour
MaxResolves == 2    \* top-level resolveId / resolveIds calls in one behaviour
MaxRegs == 1        \* helper / wrapHelper / set / get calls in one behaviour
MaxResets == 1      \* reset() calls in one behaviour
MaxGets == 2        \* get({wrap: true}) calls in one behaviour

(***************************************************************************)
(* JavaScript values.                                                      *)
(***************************************************************************)
Undef == [t |-> "undefined"]
Num(n) == [t |-> "number", n |-> n]
Str(s) == [t |-> "string", s |-> s]
Arr(a) == [t |-> "object", a |-> a]

\* The options object a template engine passes last: { hash: { k: v, ... } },
\* its hash as the entries in key order.
Options(h) == [t |-> "object", hash |-> h]

\* The completion callback the co class appends for activation n of a record,
\* and the promise a helper returned, settled with outcome r.
Cb(n) == [t |-> "function", n |-> n]
Promise(r) == [t |-> "promise", r |-> r]

IsStr(v) == v.t = "string"
IsArr(v) == v.t = "object" /\ "a" \in DOMAIN v
IsOptions(v) == v.t = "object" /\ "hash" \in DOMAIN v

\* A cell of a string: one character, or the whole text of one async id.
Ch(c) == [ch |-> c]
IdCell(id) == [id |-> id]
IsIdCell(cell) == "id" \in DOMAIN cell

\* A `!val` that also takes every array for falsy.
Falsy_AlsoArrays(v) == v.t # "string" \/ v.s = <<>>

\* `!val`: undefined, 0 and "" are falsy, every array is truthy.
Falsy(v) ==
  \/ v.t = "undefined"
  \/ v.t = "number" /\ v.n = 0
  \/ v.t = "string" /\ v.s = <<>>

\* A value computed once and then used under a name.
With(x, F(_)) == CHOOSE y \in {F(v) : v \in {x}} : TRUE

RECURSIVE Concat(_)
Concat(ss) == IF ss = <<>> THEN <<>> ELSE Head(ss) \o Concat(Tail(ss))

\* Array.prototype.join(","): undefined elements give the empty string.
RECURSIVE JoinCells(_)
JoinCells(ss) ==
  IF ss = <<>> THEN <<>>
  ELSE IF Len(ss) = 1 THEN ss[1]
  ELSE ss[1] \o <<Ch(",")>> \o JoinCells(Tail(ss))

\* String(v), as + , join and replace coerce a value.
RECURSIVE ToStr(_)
ToStr(v) ==
  CASE v.t = "undefined" -> <<Ch("undefined")>>
    [] v.t = "number" -> <<Ch(ToString(v.n))>>
    [] v.t = "string" -> v.s
    [] v.t = "function" -> <<Ch("function () {}")>>
    [] v.t = "promise" -> <<Ch("[object Promise]")>>
    [] IsOptions(v) -> <<Ch("[object Object]")>>
    [] OTHER ->
         JoinCells([i \in 1..Len(v.a) |->
                      IF v.a[i].t = "undefined" THEN <<>> ELSE ToStr(v.a[i])])


(***************************************************************************)
(* Async ids.                                                              *)
(***************************************************************************)
\* part_002:514  `${self.prefix}@${name}@${self.counter}@@@`
PromiseId(pfx, name, count) == [p |-> pfx, n |-> name, c |-> count]

\* index.ts:87-101  prefix + globalCounter + "$" + num + "$}"
appendPrefix(pfx, g) == [p |-> pfx, g |-> g]
createId(scoped, num) == [p |-> scoped.p, g |-> scoped.g, c |-> num]

\* The text of an id, as a one-cell string value.
IdStr(id) == Str(<<IdCell(id)>>)

\* part_002:531-534  val && typeof val === "string" && /prefix@.+@\d+@@@/.test(val)
PHasAsyncId(pfx, v) ==
  /\ ~Falsy(v)
  /\ IsStr(v)
  /\ \E i \in 1..Len(v.s) : IsIdCell(v.s[i]) /\ v.s[i].id.p = pfx

\* index.ts:409-414  str.indexOf(this.prefix) !== -1  (the caller checks typeof)
GHasAsyncId(pfx, s) == \E i \in 1..Len(s) : IsIdCell(s[i]) /\ s[i].id.p = pfx

\* index.ts:397-402  str.match(prefixRegex): every id with this prefix, of any
\* instance, one entry per occurrence.
GMatches(pfx, s) ==
  LET Mine(cell) == IsIdCell(cell) /\ cell.id.p = pfx
  IN [i \in 1..Len(SelectSeq(s, Mine)) |-> SelectSeq(s, Mine)[i].id]

(***************************************************************************)
(* The helpers the caller registers: their calling convention and what     *)
(* they compute.                                                           *)
(***************************************************************************)
Ok(v) == [ok |-> TRUE, v |-> v]
Err(msg) == [ok |-> FALSE, e |-> msg]

UpperCh(cell) ==
  IF IsIdCell(cell) THEN Ch("#")
  ELSE CASE cell.ch = "a" -> Ch("A")
         [] cell.ch = "b" -> Ch("B")
         [] OTHER -> cell

ArgAt(args, i) == IF i <= Len(args) THEN args[i] ELSE Undef

\* What the helper body computes from the receiver and the arguments it is
\* applied to: a value, or an error it throws, rejects with or hands to its
\* callback.
Body(fn, ctx, args) ==
  CASE fn.body = "echo" -> Ok(ArgAt(args, 1))
    [] fn.body = "upper" ->
         IF IsStr(ArgAt(args, 1))
           THEN Ok(Str([i \in 1..Len(args[1].s) |-> UpperCh(args[1].s[i])]))
           ELSE Err(<<Ch("str.toUpperCase is not a function")>>)
    [] OTHER -> Err(<<Ch("boom")>>)

Fn(name, conv, body) == [name |-> name, conv |-> conv, body |-> body]

\* (x) => x, async (x) => x, (x, cb) => cb(null, x), (str) => str.toUpperCase(),
\* () => { throw new Error("boom") }, async () => { throw new Error("boom") },
\* (x, cb) => cb(new Error("boom"))
Functions ==
  { Fn("echo", "sync", "echo"), Fn("echoAsync", "promise", "echo"),
    Fn("echoCb", "cb", "echo"), Fn("upper", "sync", "upper"),
    Fn("boom", "sync", "boom"), Fn("boomAsync", "promise", "boom"),
    Fn("boomCb", "cb", "boom") }

\* The name -> function mappings the caller registers in one call.
Mappings ==
  { m \in SUBSET Functions :
      \/ {f.name : f \in m} = {"echo", "upper"}
      \/ {f.name : f \in m} = {"echoAsync", "boom"}
      \/ {f.name : f \in m} = {"echoCb", "upper"}
      \/ {f.name : f \in m} = {"boomAsync", "boomCb"} }

AsMap(m) == [name \in {f.name : f \in m} |-> CHOOSE f \in m : f.name = name]

\* No function: what rawHelpers[name] holds when it was assigned undefined.
NoFn == Fn("", "none", "none")

\* part_002:440 and index.ts:180: the default prefix of each class.
DefaultPrefix(v) == IF v = "promise" THEN "@@@ASYNCID@" ELSE "{$ASYNCID$"

(***************************************************************************)
(* State.                                                                  *)
(***************************************************************************)
VARIABLES
  variant,        \* "promise" (part_002) or "co" (index.ts)
  prefix,         \* this.prefix
  globalCounter,  \* co: this.globalCounter, the instance scope of its ids
  rawHelpers,     \* promise: this.rawHelpers; co: this.helpers  (name -> function)
  nameOrder,      \* Object.keys of that object: its names in insertion order
  wrappedHelpers, \* promise: this.wrappedHelpers; co: the wrappers handed out
                  \*   (name -> the function the wrapper closes over)
  counter,        \* this.counter
  helperIds,      \* promise: this.helperIds, in insertion order (Object.keys order)
  stash,          \* co: the module-level stash, in insertion order
  tasks,          \* promise: the resolveId / resolveIds activations in flight
  last,           \* the caller's most recent operation and its outcome
  issued,         \* history: every wrapped-helper invocation made, with its result
  invoked,        \* history: per record, the argument lists its function was applied to
  runs,           \* history: per record, invocations, value writes and failed
                  \*   resolutions in the current top-level resolve call
  budget,         \* operations made so far, by kind
  peers           \* the other instances of the class in the same module, each
                  \*   with the fields of its own

vars == <<variant, prefix, globalCounter, rawHelpers, nameOrder, wrappedHelpers, counter,
          helperIds, stash, tasks, last, issued, invoked, runs, budget, peers>>

Empty == [x \in {} |-> NoFn]
Idle == [op |-> "none"]

\* part_002:429-441 and index.ts:159-186: the state after construction.
Init ==
  /\ variant \in {"promise", "co"}
  /\ prefix = DefaultPrefix(variant)
  /\ globalCounter = 0
  /\ peers = <<>>
  /\ rawHelpers = Empty
  /\ nameOrder = <<>>
  /\ wrappedHelpers = Empty
  /\ counter = 0
  /\ helperIds = <<>>
  /\ stash = <<>>
  /\ tasks = <<>>
  /\ last = Idle
  /\ issued = <<>>
  /\ invoked = <<>>
  /\ runs = <<>>
  /\ budget = [calls |-> 0, resolves |-> 0, regs |-> 0, resets |-> 0, gets |-> 0]

\* The caller is a single logical thread: it starts an operation only when
\* no resolution is in flight.
Quiet == tasks = <<>>

Store == IF variant = "promise" THEN helperIds ELSE stash

\* obj[key] = val on an insertion-ordered object.
Put(obj, key, val) ==
  IF \E i \in 1..Len(obj) : obj[i].id = key
    THEN [i \in 1..Len(obj) |-> IF obj[i].id = key THEN val ELSE obj[i]]
    ELSE Append(obj, val)

\* The position of obj[key], 0 when the object has no such key.  The key is
\* the property-key coercion of any value: String(value).
Find(obj, key) ==
  LET hits == {i \in 1..Len(obj) : <<IdCell(obj[i].id)>> = ToStr(key)}
  IN IF hits = {} THEN 0 ELSE CHOOSE i \in hits : TRUE

Set(f, k, v) == [x \in DOMAIN f \cup {k} |-> IF x = k THEN v ELSE f[x]]

Spend(kind) == budget' = [budget EXCEPT ![kind] = @ + 1]

\* Object.keys after obj[k] = ... : a new key goes last, a known one keeps
\* its place.
AddKey(ks, k) == IF \E i \in 1..Len(ks) : ks[i] = k THEN ks ELSE Append(ks, k)

\* Object.keys(mapping) of the two-name mappings the caller passes.
KeysOf(m) ==
  LET one == (CHOOSE f \in m : TRUE).name
      rest == {f.name : f \in m} \ {one}
  IN IF rest = {} THEN <<one>> ELSE <<one, CHOOSE n \in rest : TRUE>>

RECURSIVE AddKeys(_, _)
AddKeys(ks, new) == IF new = <<>> THEN ks ELSE AddKeys(AddKey(ks, Head(new)), Tail(new))

(***************************************************************************)
(* Registry.                                                               *)
(***************************************************************************)
\* part_002:496-528  wrapHelper(name, helper) with a string name: the effect
\* on rawHelpers and wrappedHelpers.
PWrapOne(reg, name, helper) ==
  LET found == IF name \in DOMAIN reg.raw /\ reg.raw[name] # NoFn
                 THEN reg.raw[name] ELSE helper
  IN IF name \in DOMAIN reg.wrapped THEN reg
     ELSE IF found = NoFn
       THEN [raw |-> Set(reg.raw, name, found), wrapped |-> reg.wrapped, threw |-> TRUE]
       ELSE [raw |-> Set(reg.raw, name, found),
             wrapped |-> Set(reg.wrapped, name, found), threw |-> reg.threw]

\* part_002:485-490  wrapHelper(mapping): wrapHelper(key, mapping[key]) for
\* each key; this is how part_003 and the test at part_002:300 define
\* and wrap in one call.
PWrapHelper(m) ==
  LET reg == [raw |-> rawHelpers, wrapped |-> wrappedHelpers, threw |-> FALSE]
      one == PWrapOne(reg, (CHOOSE f \in m : TRUE).name, CHOOSE f \in m : TRUE)
      rest == m \ {CHOOSE f \in m : TRUE}
      two == IF rest = {} THEN one
             ELSE PWrapOne(one, (CHOOSE f \in rest : TRUE).name, CHOOSE f \in rest : TRUE)
  IN
  /\ variant = "promise"
  /\ Quiet /\ Store = <<>>
  /\ budget.regs < MaxRegs
  /\ rawHelpers' = two.raw
  /\ nameOrder' = AddKeys(nameOrder, KeysOf(m))
  /\ wrappedHelpers' = two.wrapped
  /\ last' = [op |-> "wrapHelper"]
  /\ Spend("regs")
  /\ UNCHANGED <<variant, peers, prefix, globalCounter, counter, helperIds, stash,
                 tasks, issued, invoked, runs>>

\* index.ts:202-223  set(mapping): this.helpers[name] = fn for each key.
GSet(m) ==
  /\ variant = "co"
  /\ Quiet /\ Store = <<>>
  /\ budget.regs < MaxRegs
  /\ rawHelpers' = [name \in DOMAIN rawHelpers \cup DOMAIN AsMap(m) |->
                      IF name \in DOMAIN AsMap(m) THEN AsMap(m)[name] ELSE rawHelpers[name]]
  /\ nameOrder' = AddKeys(nameOrder, KeysOf(m))
  /\ last' = [op |-> "set"]
  /\ Spend("regs")
  /\ UNCHANGED <<variant, peers, prefix, globalCounter, wrappedHelpers, counter,
                 helperIds, stash, tasks, issued, invoked, runs>>

\* index.ts:337-374  wrapper(name, fn): the function object one call of
\* wrapper creates.  Every call evaluates the declaration of index.ts:342
\* anew; made, the number of the get call, tells the objects of one call
\* from those of another.
Wrapper(name, fn, made) == [helperName |-> name, fn |-> fn, made |-> made]

\* index.ts:240-245,298-328,337-374  get({wrap: true}): wrapHelpers calls
\* wrapHelper, and so wrapper, for every registered function that is not
\* itself a wrapper, and returns the new wrappers.
GGet ==
  /\ variant = "co"
  /\ Quiet /\ Store = <<>>
  /\ rawHelpers # Empty
  /\ budget.gets < MaxGets
  /\ wrappedHelpers' = rawHelpers
  /\ last' = [op |-> "get",
              ret |-> [name \in DOMAIN rawHelpers |->
                        Wrapper(name, rawHelpers[name], budget.gets + 1)]]
  /\ Spend("gets")
  /\ UNCHANGED <<variant, peers, nameOrder, prefix, globalCounter, rawHelpers, counter, helperIds,
                 stash, tasks, issued, invoked, runs>>

(***************************************************************************)
(* Invoking a wrapped helper.                                              *)
(***************************************************************************)
\* What the template engine passes: the receiver and the argument list.
\* Literals, the id of an earlier call, arrays mixing both, and text that
\* embeds an id.
Call(this, args) == [this |-> this, args |-> args]

\* The calls a template makes of helper fn: a thrower takes no argument (one
\* before its callback), the upper-caser only a string or the id of one, the
\* others every shape.
Inputs(fn, ids) ==
  LET lit == <<Str(<<Ch("a")>>)>>
      plain == { Call("none", <<>>), Call("view", lit), Call("none", <<Num(0)>>),
                 Call("none", <<Str(<<Ch("$"), Ch("$")>>)>>),
                 Call("none", <<Arr(lit)>>) }
      nested == {Call("none", <<IdStr(id)>>) : id \in ids}
      shaped == {Call("none", <<Arr(<<IdStr(id)>>)>>) : id \in ids}
                \cup {Call("none", <<Arr(lit \o <<IdStr(id)>>)>>) : id \in ids}
                \cup {Call("none", <<Str(<<Ch("a"), IdCell(id)>>)>>) : id \in ids}
  IN CASE fn.body = "boom" ->
            IF fn.conv = "cb" THEN {Call("none", lit)} ELSE {Call("none", <<>>)}
       [] fn.body = "upper" -> {Call("view", lit)} \cup nested
       [] OTHER -> plain \cup nested \cup shaped

StoreIds == {Store[i].id : i \in 1..Len(Store)}

\* The histories a wrapped call extends: one more issued token, and a fresh
\* invocation log when the store gained a record.
Issue(store, id, this, args) ==
  /\ invoked' = IF Len(store') > Len(store) THEN Append(invoked, <<>>) ELSE invoked
  /\ runs' = IF Len(store') > Len(store)
               THEN Append(runs, [inv |-> 0, wr |-> 0, fail |-> 0]) ELSE runs
  /\ issued' = Append(issued, [id |-> id, args |-> args, this |-> this])
  /\ last' = [op |-> "call", ret |-> id]

\* A wrappedHelper that stores the record without the arguments of the call.
wrappedHelper_NoArgs(name, this, args) ==
  /\ variant = "promise"
  /\ counter' = counter + 1
  /\ helperIds' = Put(helperIds, PromiseId(prefix, name, counter + 1),
                      [id |-> PromiseId(prefix, name, counter + 1), name |-> name,
                       args |-> <<>>, fn |-> wrappedHelpers[name], ctx |-> this,
                       count |-> counter + 1, has |-> FALSE, value |-> Undef])
  /\ Issue(helperIds, PromiseId(prefix, name, counter + 1), this, args)
  /\ UNCHANGED stash

\* part_002:512-525  wrappedHelper(...args)
wrappedHelper(name, this, args) ==
  LET count == counter + 1
      id == PromiseId(prefix, name, count)
      token == [id |-> id, name |-> name, args |-> args,
                fn |-> wrappedHelpers[name],
                ctx |-> IF this = "none" THEN "{}" ELSE this,
                count |-> count, has |-> FALSE, value |-> Undef]
  IN
  /\ variant = "promise"
  /\ counter' = count
  /\ helperIds' = Put(helperIds, id, token)
  /\ Issue(helperIds, id, this, args)
  /\ UNCHANGED stash

\* index.ts:343-364  wrapper(): the function get() hands out for `name`; the
\* token carries the name of the function itself (index.ts:282).
wrapper(name, this, args) ==
  LET num == counter
      id == createId(appendPrefix(prefix, globalCounter), num)
      token == [id |-> id, name |-> wrappedHelpers[name].name, args |-> args,
                fn |-> wrappedHelpers[name], ctx |-> this,
                count |-> num, has |-> FALSE, value |-> Undef]
  IN
  /\ variant = "co"
  /\ counter' = num + 1
  /\ stash' = Put(stash, id, token)
  /\ Issue(stash, id, this, args)
  /\ UNCHANGED helperIds

WrappedCall ==
  /\ Quiet
  /\ budget.calls < MaxCalls
  /\ \E name \in DOMAIN wrappedHelpers :
     \E in \in Inputs(wrappedHelpers[name], StoreIds) :
       wrappedHelper(name, in.this, in.args) \/ wrapper(name, in.this, in.args)
  /\ Spend("calls")
  /\ UNCHANGED <<variant, peers, nameOrder, prefix, globalCounter, rawHelpers,
                 wrappedHelpers, tasks>>

\* reset() that empties the stash and keeps the counter running.
Reset_KeepsCounter ==
  /\ variant = "co" /\ Quiet
  /\ budget.resets < MaxResets
  /\ stash' = <<>>
  /\ invoked' = <<>>
  /\ runs' = <<>>
  /\ last' = [op |-> "reset"]
  /\ Spend("resets")
  /\ UNCHANGED <<variant, peers, nameOrder, prefix, globalCounter, rawHelpers, wrappedHelpers,
                 counter, helperIds, tasks, issued>>

\* index.ts:386-390  reset(): stash = {}; this.counter = 0.
Reset ==
  /\ variant = "co" /\ Quiet
  /\ budget.resets < MaxResets
  /\ stash' = <<>>
  /\ counter' = 0
  /\ invoked' = <<>>
  /\ runs' = <<>>
  /\ last' = [op |-> "reset"]
  /\ Spend("resets")
  /\ UNCHANGED <<variant, peers, nameOrder, prefix, globalCounter, rawHelpers, wrappedHelpers,
                 helperIds, tasks, issued>>

(***************************************************************************)
(* promise: resolveId and resolveIds as activations of async functions.    *)
(* An async function runs synchronously up to its first await, so the      *)
(* activations one call starts before it first yields are created in one   *)
(* step (the Spawn operators); what happens after an await is a step of    *)
(* its own.                                                                *)
(***************************************************************************)
Task(kind, parent, slot, pc, rec, key) ==
  [kind |-> kind, parent |-> parent, slot |-> slot, pc |-> pc, rec |-> rec,
   key |-> key, arr |-> <<>>, i |-> 0, acc |-> <<>>, pend |-> Ok(Undef),
   out |-> Ok(Undef)]

Settled(kind, parent, slot, out) ==
  [Task(kind, parent, slot, "done", 0, Undef) EXCEPT !.out = out]

\* part_002:553-555
NotFound(key) ==
  <<Ch("AsyncHelpers#resolveId: cannot resolve helper with id")>> \o ToStr(key)

\* part_002:591-593
Failed(name, id, cause) ==
  <<Ch("AsyncHelpers#resolveId: helper failed"), Ch(name), IdCell(id)>> \o cause

\* A stored function that loses what the helper delivers.
Apply_LosesValue(fn, ctx, args) == Ok(Str(<<>>))

\* The function as wrapHelper stored it (part_002:510): a callback-style
\* helper is promisified, so it is called with the arguments followed by a
\* completion callback; (x, cb) => ... finds its callback only behind
\* exactly one argument.
Apply(fn, ctx, args) ==
  IF fn.conv = "cb" /\ Len(args) # 1
    THEN Err(<<Ch("cb is not a function")>>)
    ELSE Body(fn, ctx, args)

RECURSIVE SpawnId(_, _, _, _, _), SpawnArgs(_, _, _, _, _), AdvanceArr(_, _, _)
RECURSIVE AdvanceHash(_, _, _)

\* part_002:570-577  the loop over the entries of arg.hash, from entry i on,
\* up to its next await; an entry that is no id is assigned to itself.
AdvanceHash(hs, ts, w) ==
  IF ts[w].i > Len(ts[w].arr)
    THEN [ts EXCEPT ![w].pc = "done"]
    ELSE IF PHasAsyncId(prefix, ts[w].arr[ts[w].i].v)
      THEN With([ts EXCEPT ![w].pc = "entry"],
                LAMBDA us : SpawnId(hs, us, us[w].arr[us[w].i].v, w, us[w].i))
      ELSE With([ts EXCEPT ![w].i = @ + 1], LAMBDA us : AdvanceHash(hs, us, w))

\* part_002:578-584  the loop over an array argument, from element i on, up to
\* its next await.
AdvanceArr(hs, ts, w) ==
  IF ts[w].i > Len(ts[w].arr)
    THEN [ts EXCEPT ![w].pc = "done", ![w].out = Ok(Arr(ts[w].acc))]
    ELSE IF PHasAsyncId(prefix, ts[w].arr[ts[w].i])
      THEN With([ts EXCEPT ![w].pc = "elem"],
                LAMBDA us : SpawnId(hs, us, us[w].arr[us[w].i], w, us[w].i))
      ELSE With([ts EXCEPT ![w].acc = Append(@, ts[w].arr[ts[w].i]), ![w].i = @ + 1],
                LAMBDA us : AdvanceArr(hs, us, w))

\* part_002:563-586  the async callback of args.map, for one argument.
SpawnArg(hs, ts, arg, parent, slot) ==
  With(Find(hs, arg), LAMBDA item :
    IF item # 0
      THEN SpawnId(hs, ts, IdStr(hs[item].id), parent, slot)
      ELSE IF IsOptions(arg)
        THEN With(Append(ts, [Task("hash", parent, slot, "run", 0, Undef)
                                EXCEPT !.arr = arg.hash, !.i = 1]),
                  LAMBDA us : AdvanceHash(hs, us, Len(us)))
      ELSE IF IsArr(arg)
        THEN With(Append(ts, [Task("arr", parent, slot, "run", 0, Undef)
                                EXCEPT !.arr = arg.a, !.i = 1]),
                  LAMBDA us : AdvanceArr(hs, us, Len(us)))
        ELSE ts)

SpawnArgs(hs, ts, args, i, parent) ==
  IF i > Len(args) THEN ts
  ELSE With(SpawnArg(hs, ts, args[i], parent, i),
            LAMBDA us : SpawnArgs(hs, us, args, i + 1, parent))

\* A resolveId that takes a key without a record for an empty result.
SpawnId_NoLookupCheck(hs, ts, key, parent, slot) ==
  With(Find(hs, key), LAMBDA r :
    IF r = 0
      THEN Append(ts, Settled("id", parent, slot, Ok(Str(<<>>))))
      ELSE IF hs[r].has /\ IsStr(hs[r].value)
        THEN Append(ts, Settled("id", parent, slot, Ok(hs[r].value)))
        ELSE With(Append(ts, Task("id", parent, slot, "args", r, key)),
                  LAMBDA us : SpawnArgs(hs, us, hs[r].args, 1, Len(us))))

\* part_002:551-586  resolveId(key) up to its first await.
SpawnId(hs, ts, key, parent, slot) ==
  With(Find(hs, key), LAMBDA r :
    IF r = 0
      THEN Append(ts, Settled("id", parent, slot, Err(NotFound(key))))
      ELSE IF hs[r].has /\ IsStr(hs[r].value)
        THEN Append(ts, Settled("id", parent, slot, Ok(hs[r].value)))
        ELSE With(Append(ts, Task("id", parent, slot, "args", r, key)),
                  LAMBDA us : SpawnArgs(hs, us, hs[r].args, 1, Len(us))))

RECURSIVE SpawnAll(_, _, _, _)
SpawnAll(hs, ts, j, parent) ==
  IF j > Len(hs) THEN ts
  ELSE With(SpawnId(hs, ts, IdStr(hs[j].id), parent, j),
            LAMBDA us : SpawnAll(hs, us, j + 1, parent))

\* part_002:536-540  resolveIds(str) up to its first await: resolveId for
\* every key of helperIds.
SpawnIds(hs, ts, str, parent, slot) ==
  With(Append(ts, Task("ids", parent, slot, "all", 0, str)),
       LAMBDA us : SpawnAll(hs, us, 1, Len(us)))

Children(ts, t) == {j \in 1..Len(ts) : ts[j].parent = t}
Child(ts, t, slot) ==
  IF \E j \in Children(ts, t) : ts[j].slot = slot
    THEN CHOOSE j \in Children(ts, t) : ts[j].slot = slot
    ELSE 0
Done(ts, j) == ts[j].pc = "done"
AllOk(ts, t) == \A j \in Children(ts, t) : Done(ts, j) /\ ts[j].out.ok
Rejected(ts, t) == {j \in Children(ts, t) : Done(ts, j) /\ ~ts[j].out.ok}

\* String.prototype.replace's replacement patterns: "$$" inserts a "$",
\* "$&" inserts the matched text.
RECURSIVE GetSubstitution(_, _)
GetSubstitution(matched, repl) ==
  IF repl = <<>> THEN <<>>
  ELSE IF Len(repl) >= 2 /\ repl[1] = Ch("$") /\ repl[2] = Ch("$")
    THEN <<Ch("$")>> \o GetSubstitution(matched, SubSeq(repl, 3, Len(repl)))
  ELSE IF Len(repl) >= 2 /\ repl[1] = Ch("$") /\ repl[2] = Ch("&")
    THEN <<matched>> \o GetSubstitution(matched, SubSeq(repl, 3, Len(repl)))
  ELSE <<repl[1]>> \o GetSubstitution(matched, Tail(repl))

\* part_002:544  acc.replace(new RegExp(id, "g"), value)
Replace(s, id, value) ==
  Concat([i \in 1..Len(s) |->
            IF s[i] = IdCell(id) THEN GetSubstitution(s[i], ToStr(value))
            ELSE <<s[i]>>])

\* part_002:541-548  the reduce over the resolved {id, value} pairs.
RECURSIVE Reduce(_, _, _, _)
Reduce(hs, vals, j, acc) ==
  IF j > Len(hs) \/ ~acc.ok THEN acc
  ELSE IF acc.v = IdStr(hs[j].id) THEN Reduce(hs, vals, j + 1, Ok(vals[j]))
  ELSE IF IsStr(acc.v)
    THEN With(Ok(Str(Replace(acc.v.s, hs[j].id, vals[j]))),
              LAMBDA next : Reduce(hs, vals, j + 1, next))
    ELSE Err(<<Ch("acc.replace is not a function")>>)

\* What a step leaves behind: the activations, dropped once all have
\* settled, and the outcome the caller's promise settles with (that of the
\* call's own activation, the first one).
Finish(activations, call) ==
  \E ts \in {activations} :
    /\ tasks' = IF \A j \in 1..Len(ts) : Done(ts, j) THEN <<>> ELSE ts
    /\ last' = IF ~call.settled /\ Done(ts, 1)
                 THEN [call EXCEPT !.settled = TRUE, !.out = ts[1].out]
                 ELSE call

\* The promise the caller holds for a call just made.  `prior` is what the
\* caller got when the operation just before was the same resolveId and
\* succeeded: the value it then saw, else nothing.
Pending(op, arg) ==
  [op |-> op, arg |-> arg, settled |-> FALSE, out |-> Ok(Undef),
   prior |-> IF /\ op = "resolveId" /\ last.op = "resolveId"
                /\ last.settled /\ last.out.ok /\ last.arg = arg
               THEN <<last.out.v>> ELSE <<>>]

NoRuns == [r \in 1..Len(Store) |-> [inv |-> 0, wr |-> 0, fail |-> 0]]

\* The text of an id that no wrapped call of this instance ever returned.
Unknown ==
  IdStr(IF variant = "promise" THEN PromiseId(prefix, "ghost", 0)
        ELSE createId(appendPrefix(prefix, globalCounter), 99))

\* The keys the caller asks resolveId for: an id a wrapped call returned
\* (its record may be gone after a reset), an id never returned, or the
\* number of the test at part_002:336.
Keys == {IdStr(issued[i].id) : i \in 1..Len(issued)} \cup {Unknown, Num(123456)}

\* The strings the caller asks resolveIds for: text without ids, exactly
\* one id, text with one id twice, text with two ids.
Renders ==
  {Str(<<Ch("a")>>)}
  \cup {IdStr(id) : id \in StoreIds}
  \cup {Str(<<Ch("a"), IdCell(id), Ch("b"), IdCell(id)>>) : id \in StoreIds}
  \cup {Str(<<IdCell(x[1]), Ch("b"), IdCell(x[2])>>) :
          x \in {y \in StoreIds \X StoreIds : y[1].c > y[2].c}}

\* resolveId(key) that takes the record of the key out of helperIds.
PResolveId_Consumes(key) ==
  /\ variant = "promise" /\ Quiet
  /\ budget.resolves < MaxResolves
  /\ Finish(SpawnId(helperIds, <<>>, key, 0, 0), Pending("resolveId", key))
  /\ runs' = NoRuns
  /\ Spend("resolves")
  /\ helperIds' = SelectSeq(helperIds, LAMBDA h : IdStr(h.id) # key)
  /\ UNCHANGED <<variant, peers, nameOrder, prefix, globalCounter, rawHelpers, wrappedHelpers,
                 counter, stash, issued, invoked>>

\* part_002:551  the caller calls resolveId(key).
PResolveId(key) ==
  /\ variant = "promise" /\ Quiet
  /\ budget.resolves < MaxResolves
  /\ Finish(SpawnId(helperIds, <<>>, key, 0, 0), Pending("resolveId", key))
  /\ runs' = NoRuns
  /\ Spend("resolves")
  /\ UNCHANGED <<variant, peers, nameOrder, prefix, globalCounter, rawHelpers, wrappedHelpers,
                 counter, helperIds, stash, issued, invoked>>

\* part_002:536  the caller calls resolveIds(str).
PResolveIds(str) ==
  /\ variant = "promise" /\ Quiet
  /\ budget.resolves < MaxResolves
  /\ Finish(SpawnIds(helperIds, <<>>, str, 0, 0), Pending("resolveIds", str))
  /\ runs' = NoRuns
  /\ Spend("resolves")
  /\ UNCHANGED <<variant, peers, nameOrder, prefix, globalCounter, rawHelpers, wrappedHelpers,
                 counter, helperIds, stash, issued, invoked>>

\* part_002:589  Promise.all(argz) has resolved: fn.apply(ctx, resolved args).
PInvoke(t) ==
  LET tok == helperIds[tasks[t].rec]
      passed == [i \in 1..Len(tok.args) |->
                   IF Child(tasks, t, i) # 0 /\ tasks[Child(tasks, t, i)].kind # "hash"
                     THEN tasks[Child(tasks, t, i)].out.v
                     ELSE tok.args[i]]
  IN
  /\ tasks[t].kind = "id" /\ tasks[t].pc = "args"
  /\ AllOk(tasks, t)
  /\ Finish([tasks EXCEPT ![t].pc = "call",
                          ![t].pend = Apply(tok.fn, tok.ctx, passed)], last)
  /\ invoked' = [invoked EXCEPT ![tasks[t].rec] =
                   Append(@, [args |-> passed, ctx |-> tok.ctx])]
  /\ runs' = [runs EXCEPT ![tasks[t].rec].inv = @ + 1]
  /\ UNCHANGED <<variant, peers, nameOrder, prefix, globalCounter, rawHelpers, wrappedHelpers,
                 counter, helperIds, stash, issued, budget>>

\* part_002:588-594  Promise.all(argz) has rejected: the catch rethrows.
PReject(t) ==
  /\ tasks[t].kind = "id" /\ tasks[t].pc = "args"
  /\ \E j \in Rejected(tasks, t) :
       Finish([tasks EXCEPT ![t].pc = "done",
                 ![t].out = Err(Failed(helperIds[tasks[t].rec].name,
                                       helperIds[tasks[t].rec].id,
                                       tasks[j].out.e))], last)
  /\ runs' = [runs EXCEPT ![tasks[t].rec].fail = @ + 1]
  /\ UNCHANGED <<variant, peers, nameOrder, prefix, globalCounter, rawHelpers, wrappedHelpers,
                 counter, helperIds, stash, issued, invoked, budget>>

\* part_002:589-604  the helper's result arrives: a failure is rethrown, a
\* value is assigned to the record and then normalised or resolved further.
PSettle(t) ==
  LET r == tasks[t].rec
      res == tasks[t].pend
      hs == [helperIds EXCEPT ![r].has = TRUE, ![r].value = res.v]
  IN
  /\ tasks[t].kind = "id" /\ tasks[t].pc = "call"
  /\ IF ~res.ok
       THEN /\ Finish([tasks EXCEPT ![t].pc = "done",
                         ![t].out = Err(Failed(helperIds[r].name,
                                               helperIds[r].id, res.e))], last)
            /\ runs' = [runs EXCEPT ![r].fail = @ + 1]
            /\ UNCHANGED helperIds
       ELSE /\ helperIds' = hs
            /\ runs' = [runs EXCEPT ![r].wr = @ + 1]
            /\ IF Falsy(res.v)
                 THEN Finish([tasks EXCEPT ![t].pc = "done",
                                           ![t].out = Ok(Str(<<>>))], last)
                 ELSE IF PHasAsyncId(prefix, res.v)
                   THEN Finish(SpawnIds(hs, [tasks EXCEPT ![t].pc = "nested"],
                                        res.v, t, 0), last)
                   ELSE Finish([tasks EXCEPT ![t].pc = "done",
                                             ![t].out = Ok(res.v)], last)
  /\ UNCHANGED <<variant, peers, nameOrder, prefix, globalCounter, rawHelpers, wrappedHelpers,
                 counter, stash, issued, invoked, budget>>

\* part_002:600-602  return this.resolveIds(val): the nested call has settled.
PNested(t) ==
  /\ tasks[t].kind = "id" /\ tasks[t].pc = "nested"
  /\ Done(tasks, Child(tasks, t, 0))
  /\ Finish([tasks EXCEPT ![t].pc = "done",
                          ![t].out = tasks[Child(tasks, t, 0)].out], last)
  /\ runs' = IF tasks[Child(tasks, t, 0)].out.ok THEN runs
             ELSE [runs EXCEPT ![tasks[t].rec].fail = @ + 1]
  /\ UNCHANGED <<variant, peers, nameOrder, prefix, globalCounter, rawHelpers, wrappedHelpers,
                 counter, helperIds, stash, issued, invoked, budget>>

\* part_002:541-548  Promise.all(promises) has settled: the reduce, or the
\* first rejection.
PAll(t) ==
  /\ tasks[t].kind = "ids" /\ tasks[t].pc = "all"
  /\ \/ /\ AllOk(tasks, t)
        /\ \E vals \in {[j \in 1..Len(helperIds) |-> tasks[Child(tasks, t, j)].out.v]} :
             Finish([tasks EXCEPT ![t].pc = "done",
                       ![t].out = Reduce(helperIds, vals, 1, Ok(tasks[t].key))], last)
     \/ \E j \in Rejected(tasks, t) :
          Finish([tasks EXCEPT ![t].pc = "done",
                               ![t].out = Err(tasks[j].out.e)], last)
  /\ UNCHANGED <<variant, peers, nameOrder, prefix, globalCounter, rawHelpers, wrappedHelpers,
                 counter, helperIds, stash, issued, invoked, runs, budget>>

\* part_002:580-582  the await inside the array loop has settled.
PElem(w) ==
  LET c == Child(tasks, w, tasks[w].i) IN
  /\ tasks[w].kind = "arr" /\ tasks[w].pc = "elem"
  /\ Done(tasks, c)
  /\ IF tasks[c].out.ok
       THEN Finish(AdvanceArr(helperIds,
                     [tasks EXCEPT ![w].pc = "run",
                                   ![w].acc = Append(@, tasks[c].out.v),
                                   ![w].i = @ + 1], w), last)
       ELSE Finish([tasks EXCEPT ![w].pc = "done",
                                 ![w].out = Err(tasks[c].out.e)], last)
  /\ UNCHANGED <<variant, peers, nameOrder, prefix, globalCounter, rawHelpers, wrappedHelpers,
                 counter, helperIds, stash, issued, invoked, runs, budget>>

\* part_002:571-575  the await inside the hash loop has settled: the value
\* is assigned to the entry of the stored argument itself.
PEntry(w) ==
  LET c == Child(tasks, w, tasks[w].i)
      r == tasks[tasks[w].parent].rec
  IN
  /\ tasks[w].kind = "hash" /\ tasks[w].pc = "entry"
  /\ Done(tasks, c)
  /\ IF tasks[c].out.ok
       THEN /\ helperIds' = [helperIds EXCEPT
                               ![r].args[tasks[w].slot].hash[tasks[w].i].v =
                                 tasks[c].out.v]
            /\ Finish(AdvanceHash(helperIds',
                         [tasks EXCEPT ![w].pc = "run", ![w].i = @ + 1], w), last)
       ELSE /\ UNCHANGED helperIds
            /\ Finish([tasks EXCEPT ![w].pc = "done",
                                    ![w].out = Err(tasks[c].out.e)], last)
  /\ UNCHANGED <<variant, peers, nameOrder, prefix, globalCounter, rawHelpers, wrappedHelpers,
                 counter, stash, issued, invoked, runs, budget>>

(***************************************************************************)
(* co: resolveId and resolveIds.  Inside co a generator runs its yields one *)
(* after the other, so one call is a sequential computation over the stash *)
(* and the invocation history; it starts when the caller makes the call    *)
(* and runs when the event loop gets to it.                                *)
(***************************************************************************)
\* A completion that never comes: the callback handed to the helper is not
\* the one this activation waits on.
Hang == [ok |-> FALSE, e |-> <<Ch("never settles")>>, hang |-> TRUE]
IsHang(out) == "hang" \in DOMAIN out

\* index.ts:436-438 and 441-445
KeyNotString == <<Ch("AsyncHelpers#resolveId: expects key to be a string.")>>
CannotResolve(key) == <<Ch("AsyncHelpers#resolveId: cannot resolve helper: ")>> \o ToStr(key)

\* index.ts:583-585
ExpectsString == <<Ch("AsyncHelpers#resolveIds() expects a string.")>>

Run(st, inv, rn, out) == [st |-> st, inv |-> inv, rn |-> rn, out |-> out]

\* index.ts:467-500  helper.fn.apply(helper.context, args) and what reaches
\* `next`: a returned value, a returned promise, a thrown error, or what the
\* helper hands to the callback that activation n appended.
GApply(fn, ctx, args, n) ==
  CASE fn.conv = "sync" -> Body(fn, ctx, args)
    [] fn.conv = "promise" -> Ok(Promise(Body(fn, ctx, args)))
    [] OTHER ->
         IF ArgAt(args, 2).t # "function"
           THEN Err(<<Ch("cb is not a function")>>)
           ELSE IF ArgAt(args, 2) = Cb(n) THEN Body(fn, ctx, args) ELSE Hang

\* What a yield of a value gives back: co awaits a promise it is handed.
Await(v) == IF v.t = "promise" THEN v.r ELSE Ok(v)

RECURSIVE GResolveId(_, _), GResolveArgs(_, _, _), GResolveIds(_, _, _, _)
RECURSIVE GResolveObject(_, _, _)

\* index.ts:456-465  next(err, val)
GNext(s, r, res) ==
  IF ~res.ok THEN [s EXCEPT !.out = res]
  ELSE IF res.v.t # "undefined"
    THEN [s EXCEPT !.st[r].has = TRUE, !.st[r].value = res.v,
                   !.rn[r].wr = @ + 1, !.out = Await(res.v)]
    ELSE [s EXCEPT !.out = Ok(Str(<<>>))]

\* index.ts:69-77  formatError(err, helper, args): the error a helper threw
\* or handed to its callback gets the record as its `helper` property; its
\* message stays as it is.
formatError(err, tok) ==
  IF err.ok \/ IsHang(err) THEN err
  ELSE [ok |-> FALSE, e |-> err.e, helper |-> [name |-> tok.name, id |-> tok.id]]

\* index.ts:467-495  the callback is appended to the arguments of an async
\* helper and the helper is applied; the outcome is what reaches `next`.
GInvoke(s, r) ==
  LET n == Len(s.inv[r]) + 1
      tok == s.st[r]
      args == IF tok.fn.conv = "cb" THEN Append(tok.args, Cb(n)) ELSE tok.args
  IN [s EXCEPT !.st[r].args = args,
               !.inv[r] = Append(@, [args |-> args, ctx |-> tok.ctx]),
               !.rn[r].inv = @ + 1,
               !.out = formatError(GApply(tok.fn, tok.ctx, args, n), tok)]

\* The history of a run: a resolveId of record r that ends in an error is a
\* failed resolution of r.
GCount(x, r) ==
  IF x.out.ok \/ IsHang(x.out) THEN x ELSE [x EXCEPT !.rn[r].fail = @ + 1]

\* index.ts:435-504  *resolveId(key)
GResolveId(s, key) ==
  IF ~IsStr(key) THEN [s EXCEPT !.out = Err(KeyNotString)]
  ELSE With(Find(s.st, key), LAMBDA r :
    IF r = 0 THEN [s EXCEPT !.out = Err(CannotResolve(key))]
    ELSE With(GResolveArgs(s, r, 1), LAMBDA a :
      With(IF ~a.out.ok THEN a
           ELSE IF a.st[r].has THEN [a EXCEPT !.out = Await(a.st[r].value)]
           ELSE With(GInvoke(a, r), LAMBDA b :
             IF b.out.ok /\ IsStr(b.out.v) /\ GHasAsyncId(prefix, b.out.v.s)
               THEN With(GResolveIds(b, b.out.v.s, GMatches(prefix, b.out.v.s), 1),
                         LAMBDA c : GNext(c, r, c.out))
               ELSE GNext(b, r, b.out)),
           LAMBDA x : GCount(x, r))))

\* index.ts:519-531  *resolveArgs(helper), from argument i on.
GResolveArgs(s, r, i) ==
  IF i > Len(s.st[r].args) THEN [s EXCEPT !.out = Ok(Undef)]
  ELSE IF /\ ~Falsy(s.st[r].args[i]) /\ IsStr(s.st[r].args[i])
          /\ GHasAsyncId(prefix, s.st[r].args[i].s)
    THEN With(GResolveId(s, s.st[r].args[i]), LAMBDA a :
           IF a.out.ok
             THEN With([a EXCEPT !.st[r].args[i] = a.out.v],
                       LAMBDA b : GResolveArgs(b, r, i + 1))
             ELSE a)
    ELSE IF ~Falsy(s.st[r].args[i]) /\ IsOptions(s.st[r].args[i])
      THEN With(GResolveObject(s, r, i), LAMBDA a :
             IF a.out.ok THEN GResolveArgs(a, r, i + 1) ELSE a)
      ELSE GResolveArgs(s, r, i + 1)

\* index.ts:547-560  *resolveObject(arg.hash) for argument i of record r.
\* The reduce hands each callback what the callback before it returned: the
\* first gets the hash, every later one gets the promise co returned, on
\* which acc[key] is undefined.  So the first entry is the one looked at,
\* and the promise yielded at the end settles as the first one does, with
\* the hash itself.
GResolveObject(s, r, i) ==
  LET hash == s.st[r].args[i].hash IN
  IF hash # <<>> /\ IsStr(hash[1].v) /\ GHasAsyncId(prefix, hash[1].v.s)
    THEN With(GResolveId(s, hash[1].v), LAMBDA a :
           IF a.out.ok THEN [a EXCEPT !.st[r].args[i].hash[1].v = a.out.v,
                                      !.out = Ok(Undef)]
           ELSE a)
    ELSE [s EXCEPT !.out = Ok(Undef)]

\* join(val): an undefined separator is a comma.
Separator(v) == IF v.t = "undefined" THEN <<Ch(",")>> ELSE ToStr(v)

\* index.ts:600  str.split(key).join(val)
SplitJoin(str, id, val) ==
  Concat([i \in 1..Len(str) |->
            IF str[i] = IdCell(id) THEN Separator(val) ELSE <<str[i]>>])

\* A loop that goes on after a token failed and leaves that token in place.
GResolveIds_Partial(s, str, ms, i) ==
  IF i > Len(ms) THEN [s EXCEPT !.out = Ok(Str(str))]
  ELSE With(GResolveId(s, IdStr(ms[i])), LAMBDA a :
         With(IF a.out.ok THEN SplitJoin(str, ms[i], a.out.v) ELSE str,
              LAMBDA next : GResolveIds(a, next, ms, i + 1)))

\* index.ts:592-603  the loop over the matches, from match i on; the outcome
\* carries the string built so far.
GResolveIds(s, str, ms, i) ==
  IF i > Len(ms) THEN [s EXCEPT !.out = Ok(Str(str))]
  ELSE With(GResolveId(s, IdStr(ms[i])), LAMBDA a :
         IF a.out.ok
           THEN With(SplitJoin(str, ms[i], a.out.v),
                     LAMBDA next : GResolveIds(a, next, ms, i + 1))
           ELSE a)

\* The caller calls resolveId(key) through co, or resolveIds(str, cb).
\* index.ts:584-586  resolveIds hands its callback the type error before it
\* returns when str is not a string.
GStart(op, arg) ==
  /\ variant = "co" /\ Quiet
  /\ budget.resolves < MaxResolves
  /\ IF op = "resolveIds" /\ ~IsStr(arg)
       THEN /\ tasks' = <<>>
            /\ last' = [Pending(op, arg) EXCEPT !.settled = TRUE,
                                                !.out = Err(ExpectsString)]
       ELSE /\ tasks' = <<[kind |-> "co"]>>
            /\ last' = Pending(op, arg)
  /\ runs' = NoRuns
  /\ Spend("resolves")
  /\ UNCHANGED <<variant, peers, nameOrder, prefix, globalCounter, rawHelpers, wrappedHelpers,
                 counter, helperIds, stash, issued, invoked>>

\* index.ts:435-504 and 578-605  the call runs to its end; its promise or
\* callback settles unless a helper never calls back.
GRun ==
  /\ variant = "co"
  /\ tasks # <<>>
  /\ tasks' = <<>>
  /\ \E s \in {Run(stash, invoked, runs, Ok(Undef))} :
     \E e \in {IF last.op = "resolveId" THEN GResolveId(s, last.arg)
               ELSE GResolveIds(s, last.arg.s, GMatches(prefix, last.arg.s), 1)} :
       /\ stash' = e.st
       /\ invoked' = e.inv
       /\ runs' = e.rn
       /\ last' = IF IsHang(e.out) THEN last
                  ELSE [last EXCEPT !.settled = TRUE, !.out = e.out]
  /\ UNCHANGED <<variant, peers, nameOrder, prefix, globalCounter, rawHelpers, wrappedHelpers,
                 counter, helperIds, issued, budget>>

Next ==
  \/ \E m \in Mappings : PWrapHelper(m)
  \/ \E m \in Mappings : GSet(m)
  \/ GGet
  \/ WrappedCall
  \/ Reset
  \/ \E key \in Keys : PResolveId(key)
  \/ \E str \in Renders \cup {Num(123456)} : PResolveIds(str)
  \/ \E key \in Keys : GStart("resolveId", key)
  \/ \E str \in Renders \cup {Num(123456)} : GStart("resolveIds", str)
  \/ GRun
  \/ \E t \in 1..Len(tasks) : PInvoke(t)
  \/ \E t \in 1..Len(tasks) : PReject(t)
  \/ \E t \in 1..Len(tasks) : PSettle(t)
  \/ \E t \in 1..Len(tasks) : PNested(t)
  \/ \E t \in 1..Len(tasks) : PAll(t)
  \/ \E t \in 1..Len(tasks) : PElem(t)

Spec == Init /\ [][Next]_vars

\* A continuation of a call in flight.
Step ==
  \/ \E t \in 1..Len(tasks) :
       PInvoke(t) \/ PReject(t) \/ PSettle(t) \/ PNested(t) \/ PAll(t) \/ PElem(t)
  \/ GRun

\* The event loop runs a continuation that is ready, and the helpers
\* modelled settle their promise or call their callback.
Fairness == WF_vars(Step)

FairSpec == Spec /\ Fairness

(***************************************************************************)
(* promise: one instance after wrapHelper and three wrapped calls, each     *)
(* later call made with the token of the call before it, and one           *)
(* resolveIds call made on it.  The helpers complete in any order.         *)
(***************************************************************************)
\* part_002:512-525  the record the k-th wrapped call stores.
Record(name, in, k) ==
  [id |-> PromiseId(DefaultPrefix("promise"), name, k), name |-> name,
   args |-> in.args,
   fn |-> CHOOSE f \in Functions : f.name = name,
   ctx |-> IF in.this = "none" THEN "{}" ELSE in.this,
   count |-> k, has |-> FALSE, value |-> Undef]

\* The stores three calls leave: echoAsync("a") or boom(), then echoAsync
\* on the first token (alone, in an array, or inside text), then echoAsync
\* on the second token (alone or inside text).
Chains ==
  LET ea == CHOOSE f \in Functions : f.name = "echoAsync"
      id(k) == PromiseId(DefaultPrefix("promise"), "echoAsync", k)
      first == {<<"echoAsync", Call("view", <<Str(<<Ch("a")>>)>>)>>,
                <<"boom", Call("none", <<>>)>>}
      onToken(t) == Inputs(ea, {t}) \ Inputs(ea, {})
  IN UNION { UNION { {<<a, <<"echoAsync", b>>, <<"echoAsync", c>>>> :
                        c \in {in \in onToken(id(2)) : IsStr(in.args[1])}} :
                     b \in onToken(PromiseId(DefaultPrefix("promise"), a[1], 1))} :
             a \in first }

RaceInit ==
  /\ variant = "promise"
  /\ prefix = DefaultPrefix("promise")
  /\ globalCounter = 0
  /\ peers = <<>>
  /\ rawHelpers = AsMap({f \in Functions : f.name \in {"echoAsync", "boom"}})
  /\ nameOrder = <<"echoAsync", "boom">>
  /\ wrappedHelpers = rawHelpers
  /\ counter = 3
  /\ \E c \in Chains :
       /\ helperIds = [k \in 1..3 |-> Record(c[k][1], c[k][2], k)]
       /\ issued = [k \in 1..3 |->
                      [id |-> PromiseId(DefaultPrefix("promise"), c[k][1], k),
                       args |-> c[k][2].args, this |-> c[k][2].this]]
  /\ stash = <<>>
  /\ tasks = <<>>
  /\ last = [op |-> "call", ret |-> helperIds[3].id]
  /\ invoked = [k \in 1..3 |-> <<>>]
  /\ runs = [k \in 1..3 |-> [inv |-> 0, wr |-> 0, fail |-> 0]]
  /\ budget = [calls |-> 3, resolves |-> MaxResolves - 1, regs |-> 1, resets |-> 0,
               gets |-> 0]

\* The strings the caller asks resolveIds for: the last token alone, and
\* text with the last and the first token.
RaceRenders ==
  {IdStr(helperIds[3].id),
   Str(<<IdCell(helperIds[3].id), Ch("b"), IdCell(helperIds[1].id)>>)}

RaceNext ==
  \/ \E str \in RaceRenders : PResolveIds(str)
  \/ \E t \in 1..Len(tasks) : PInvoke(t)
  \/ \E t \in 1..Len(tasks) : PReject(t)
  \/ \E t \in 1..Len(tasks) : PSettle(t)
  \/ \E t \in 1..Len(tasks) : PNested(t)
  \/ \E t \in 1..Len(tasks) : PAll(t)
  \/ \E t \in 1..Len(tasks) : PElem(t)

RaceSpec == RaceInit /\ [][RaceNext]_vars


(***************************************************************************)
(* The registry, one call at a time: define (helper / set), the getter     *)
(* form, and wrap (wrapHelper / get) with a name, with a name and a        *)
(* function, and with no name, for every shape of name and function a      *)
(* caller may pass.                                                        *)
(***************************************************************************)
MaxDefines == 3     \* helper / wrapHelper / set / get(name) calls in one behaviour

\* What a caller passes as a name: two names, the empty string, a number,
\* nothing; and as a function: two functions, nothing, 0, 123.
Name(n) == Str(<<Ch(n)>>)
NameArgs == {Name("echo"), Name("upper"), Str(<<>>), Num(123), Undef}
FnArgs == {f \in Functions : f.name \in {"echo", "upper"}} \cup {Undef, Num(0), Num(123)}

\* typeof v === "function"
IsFn(v) == "body" \in DOMAIN v

\* The property key a value is coerced to in obj[v].
KeyOf(v) == IF ToStr(v) = <<>> THEN "" ELSE ToStr(v)[1].ch

\* this.rawHelpers[key] / this.helpers[key] as a value.
Raw(key) ==
  IF key \in DOMAIN rawHelpers /\ rawHelpers[key] # NoFn THEN rawHelpers[key] ELSE Undef

\* What the calls return: the instance, an object of helpers, a wrapped
\* function of the promise class.
This == [t |-> "this"]
Helpers(m) == [t |-> "helpers", m |-> m]
Wrapped(key, fn) == [t |-> "wrapped", name |-> key, fn |-> fn]

\* part_002:466-470, 474-476, 503-507 and index.ts:212-219: the TypeErrors.
ExpectName == Err(<<Ch("TypeError"), Ch("AsyncHelpers#helper: expect name to be non empty string")>>)
ExpectFn == Err(<<Ch("TypeError"), Ch("AsyncHelpers#helper: expect fn to be function")>>)
CannotFind(key) ==
  Err(<<Ch("TypeError"), Ch("AsyncHelpers#wrapHelper: cannot find helper"), Ch(key), Ch("name")>>)
GExpectName == Err(<<Ch("TypeError"), Ch("AsyncHelpers#set: expected name to be a string")>>)
GExpectFn == Err(<<Ch("TypeError"), Ch("AsyncHelpers#set: expected fn to be a function or object")>>)

\* part_002:456-479  helper(name, fn) with a name that is not an object.
PHelper(name, fn) ==
  LET key == KeyOf(name)
      out == IF Falsy(name) THEN Ok(Helpers(rawHelpers))
             ELSE IF ~IsStr(name) THEN ExpectName
             ELSE IF ~IsFn(fn) /\ Falsy(fn) THEN Ok(Raw(key))
             ELSE IF ~IsFn(fn) THEN ExpectFn
             ELSE Ok(This)
  IN
  /\ variant = "promise" /\ Quiet
  /\ budget.regs < MaxDefines
  /\ rawHelpers' = IF out = Ok(This) THEN Set(rawHelpers, key, fn) ELSE rawHelpers
  /\ nameOrder' = IF out = Ok(This) THEN AddKey(nameOrder, key) ELSE nameOrder
  /\ last' = [op |-> "define", name |-> name, fn |-> fn, out |-> out]
  /\ Spend("regs")
  /\ UNCHANGED <<variant, peers, prefix, globalCounter, wrappedHelpers, counter, helperIds,
                 stash, tasks, issued, invoked, runs>>

\* part_002:485-490  Object.keys(name).forEach((key) => this.wrapHelper(key,
\* name[key])) on this.rawHelpers: the first call that throws ends the loop.
RECURSIVE PWrapAll(_, _)
PWrapAll(reg, ks) ==
  IF ks = <<>> \/ reg.threw THEN reg
  ELSE PWrapAll(PWrapOne(reg, Head(ks),
                         IF Head(ks) \in DOMAIN reg.raw THEN reg.raw[Head(ks)] ELSE NoFn),
                Tail(ks))

\* The name whose wrapHelper call threw.
FirstMissing(ks) ==
  LET bad == {i \in 1..Len(ks) : ks[i] \notin DOMAIN wrappedHelpers /\ Raw(ks[i]) = Undef}
  IN ks[CHOOSE i \in bad : \A j \in bad : i <= j]

\* part_002:481-528  wrapHelper(name, helper) with a name that is not an
\* object: no name wraps every raw helper, a name wraps one.
PWrap(name, helper) ==
  LET reg == [raw |-> rawHelpers, wrapped |-> wrappedHelpers, threw |-> FALSE]
      key == KeyOf(name)
      res == IF Falsy(name) THEN PWrapAll(reg, nameOrder)
             ELSE PWrapOne(reg, key, IF IsFn(helper) THEN helper ELSE NoFn)
      out == IF res.threw
               THEN CannotFind(IF Falsy(name) THEN FirstMissing(nameOrder) ELSE key)
             ELSE IF Falsy(name) THEN Ok(Helpers(res.wrapped))
             ELSE Ok(Wrapped(key, res.wrapped[key]))
  IN
  /\ variant = "promise" /\ Quiet
  /\ budget.regs < MaxDefines
  /\ rawHelpers' = res.raw
  /\ nameOrder' = IF Falsy(name) \/ key \in DOMAIN wrappedHelpers
                    THEN nameOrder ELSE AddKey(nameOrder, key)
  /\ wrappedHelpers' = res.wrapped
  /\ last' = [op |-> "wrap", name |-> name, fn |-> helper, out |-> out]
  /\ Spend("regs")
  /\ UNCHANGED <<variant, peers, prefix, globalCounter, counter, helperIds, stash, tasks,
                 issued, invoked, runs>>

\* index.ts:202-223  set(name, fn) with a name that is not an object.
GSetOne(name, fn) ==
  LET key == KeyOf(name)
      out == IF ~IsStr(name) THEN GExpectName
             ELSE IF ~IsFn(fn) THEN GExpectFn
             ELSE Ok(This)
  IN
  /\ variant = "co" /\ Quiet
  /\ budget.regs < MaxDefines
  /\ rawHelpers' = IF out.ok THEN Set(rawHelpers, key, fn) ELSE rawHelpers
  /\ nameOrder' = IF out.ok THEN AddKey(nameOrder, key) ELSE nameOrder
  /\ last' = [op |-> "define", name |-> name, fn |-> fn, out |-> out]
  /\ Spend("regs")
  /\ UNCHANGED <<variant, peers, prefix, globalCounter, wrappedHelpers, counter, helperIds,
                 stash, tasks, issued, invoked, runs>>

\* index.ts:240-245, 261-291, 298-328  get(name, options) with a string:
\* wrapHelper(this.helpers[name], options); a function is wrapped when
\* options.wrap is set and returned as it is otherwise; for a name that is
\* empty or has no function, helper || this.helpers takes every helper.
GGetOne(name, wrap) ==
  LET key == KeyOf(name)
      made == budget.gets + 1
      one == key # "" /\ Raw(key) # Undef
      out == IF one
               THEN Ok(IF wrap THEN Wrapper(Raw(key).name, Raw(key), made) ELSE Raw(key))
             ELSE IF wrap
               THEN Ok(Helpers([n \in DOMAIN rawHelpers |->
                                  Wrapper(rawHelpers[n].name, rawHelpers[n], made)]))
             ELSE Ok(Helpers(rawHelpers))
  IN
  /\ variant = "co" /\ Quiet
  /\ IsStr(name)
  /\ budget.gets < MaxGets
  /\ wrappedHelpers' = IF ~wrap THEN wrappedHelpers
                       ELSE IF one THEN Set(wrappedHelpers, key, Raw(key))
                       ELSE rawHelpers
  /\ last' = [op |-> IF wrap THEN "wrap" ELSE "getter", name |-> name, fn |-> Undef,
              out |-> out]
  /\ Spend("gets")
  /\ UNCHANGED <<variant, peers, prefix, globalCounter, rawHelpers, nameOrder, counter,
                 helperIds, stash, tasks, issued, invoked, runs>>

RegNext ==
  \/ \E m \in Mappings : PWrapHelper(m)
  \/ \E m \in Mappings : GSet(m)
  \/ GGet
  \/ \E name \in NameArgs, fn \in FnArgs : PHelper(name, fn)
  \/ \E name \in NameArgs \ {Num(123)}, fn \in {f \in FnArgs : IsFn(f) \/ f = Undef} :
       PWrap(name, fn)
  \/ \E name \in NameArgs, fn \in FnArgs : GSetOne(name, fn)
  \/ \E name \in NameArgs, wrap \in BOOLEAN : GGetOne(name, wrap)
  \/ WrappedCall
  \/ \E key \in Keys : PResolveId(key)
  \/ \E key \in Keys : GStart("resolveId", key)
  \/ GRun
  \/ \E t \in 1..Len(tasks) : PInvoke(t)
  \/ \E t \in 1..Len(tasks) : PSettle(t)

\* A new instance that will make one wrapped call and one resolveId call
\* besides its registry calls.
RegInit ==
  /\ variant \in {"promise", "co"}
  /\ prefix = DefaultPrefix(variant)
  /\ globalCounter = 0
  /\ peers = <<>>
  /\ rawHelpers = Empty
  /\ nameOrder = <<>>
  /\ wrappedHelpers = Empty
  /\ counter = 0
  /\ helperIds = <<>>
  /\ stash = <<>>
  /\ tasks = <<>>
  /\ last = Idle
  /\ issued = <<>>
  /\ invoked = <<>>
  /\ runs = <<>>
  /\ budget = [calls |-> MaxCalls - 1, resolves |-> MaxResolves - 1, regs |-> 0,
               resets |-> 0, gets |-> 0]

RegSpec == RegInit /\ [][RegNext]_vars

(***************************************************************************)
(* The text of the async ids, character by character, for instances built  *)
(* one after another with prefixes of the caller's choice.  Each instance  *)
(* gets the same two helpers; the tokens its wrapped helpers return are    *)
(* kept with the prefix of the instance that made them.                    *)
(***************************************************************************)
MaxInstances == 11  \* constructor calls in one behaviour
MaxTokens == 2      \* wrapped-helper invocations in one behaviour

\* The prefixes the caller configures and the names it registers helpers
\* under, and their characters.
Prefixes == {"A", "A1", "A@a"}
IdNames == {"b", "a@b"}
Chars(s) ==
  CASE s = "A" -> <<"A">>
    [] s = "A1" -> <<"A", "1">>
    [] s = "A@a" -> <<"A", "@", "a">>
    [] s = "b" -> <<"b">>
    [] s = "a@b" -> <<"a", "@", "b">>

\* String(n) of a counter.
RECURSIVE Digits(_)
Digits(n) == IF n < 10 THEN <<ToString(n)>> ELSE Digits(n \div 10) \o <<ToString(n % 10)>>

\* part_002:514  `${self.prefix}@${name}@${self.counter}@@@`
PromiseIdText(pfx, name, count) ==
  Chars(pfx) \o <<"@">> \o Chars(name) \o <<"@">> \o Digits(count) \o <<"@", "@", "@">>

\* index.ts:87-101, 338, 344  createId(appendPrefix(this.prefix,
\* this.globalCounter), num): prefix + globalCounter + "$" + num + "$" + "}"
GIdText(pfx, g, num) ==
  Chars(pfx) \o Digits(g) \o <<"$">> \o Digits(num) \o <<"$">> \o <<"}">>

\* part_002:428-441 and index.ts:159-186: the first instance, and the two
\* helpers registered and wrapped on it.
PrefixInit ==
  /\ variant \in {"promise", "co"}
  /\ prefix \in Prefixes
  /\ globalCounter = 0
  /\ peers = <<>>
  /\ rawHelpers = [n \in IdNames |-> Fn("echo", "sync", "echo")]
  /\ nameOrder = <<"b", "a@b">>
  /\ wrappedHelpers = rawHelpers
  /\ counter = 0
  /\ helperIds = <<>>
  /\ stash = <<>>
  /\ tasks = <<>>
  /\ last = Idle
  /\ issued = <<>>
  /\ invoked = <<>>
  /\ runs = <<>>
  /\ budget = [calls |-> 0, resolves |-> 0, regs |-> 0, resets |-> 0, gets |-> 0]

\* part_002:438-441 and index.ts:178-186  new AsyncHelpers({prefix: pfx}),
\* with the same helpers registered and wrapped: an instance of its own
\* counter and, in the promise class, its own store; the co class takes the
\* next value of the class-level counter and shares the module's stash.
Construct(pfx) ==
  /\ Quiet
  /\ budget.regs < MaxInstances - 1
  /\ prefix' = pfx
  /\ globalCounter' = IF variant = "co" THEN globalCounter + 1 ELSE globalCounter
  /\ counter' = 0
  /\ helperIds' = <<>>
  /\ last' = [op |-> "new"]
  /\ Spend("regs")
  /\ UNCHANGED <<variant, peers, rawHelpers, nameOrder, wrappedHelpers, stash, tasks, issued,
                 invoked, runs>>

\* part_002:512-525 and index.ts:342-364: a wrapped helper called without
\* arguments; the id it returns is the text the template receives.  It is
\* kept with the prefix and the number of the instance that made it, the
\* instances numbered from 0 in the order of their construction.
TextCall(name) ==
  LET num == IF variant = "promise" THEN counter + 1 ELSE counter
      id == IF variant = "promise" THEN PromiseIdText(prefix, name, num)
            ELSE GIdText(prefix, globalCounter, num)
      token == [id |-> id, name |-> name, args |-> <<>>, fn |-> wrappedHelpers[name],
                ctx |-> "{}", count |-> num, has |-> FALSE, value |-> Undef]
  IN
  /\ Quiet
  /\ budget.calls < MaxTokens
  /\ counter' = counter + 1
  /\ helperIds' = IF variant = "promise" THEN Put(helperIds, id, token) ELSE helperIds
  /\ stash' = IF variant = "co" THEN Put(stash, id, token) ELSE stash
  /\ issued' = Append(issued, [id |-> id, by |-> prefix, inst |-> budget.regs,
                               args |-> <<>>, this |-> "none"])
  /\ last' = [op |-> "call", ret |-> id]
  /\ Spend("calls")
  /\ UNCHANGED <<variant, peers, prefix, globalCounter, rawHelpers, nameOrder, wrappedHelpers,
                 tasks, invoked, runs>>

PrefixNext ==
  \/ \E pfx \in Prefixes : Construct(pfx)
  \/ \E name \in IdNames : TextCall(name)

PrefixSpec == PrefixInit /\ [][PrefixNext]_vars

(***************************************************************************)
(* Hash arguments: one instance of either class after three wrapped calls, *)
(* echo("a"), boom() and echo(options), the options carrying a hash of two *)
(* entries that are the first token, the second token or a literal.  The   *)
(* caller asks resolveId for the tokens.                                   *)
(***************************************************************************)
\* The id the k-th wrapped call of a fresh instance returns (part_002:514,
\* index.ts:338-344: the co class numbers its calls from 0).
NthId(v, name, k) ==
  IF v = "promise" THEN PromiseId(DefaultPrefix(v), name, k)
  ELSE createId(appendPrefix(DefaultPrefix(v), 0), k - 1)

\* The three calls the template makes.
HashCalls(v) ==
  LET vals == {IdStr(NthId(v, "echo", 1)), IdStr(NthId(v, "boom", 2)), Str(<<Ch("c")>>)}
  IN { <<[name |-> "echo", in |-> Call("view", <<Str(<<Ch("a")>>)>>)],
         [name |-> "boom", in |-> Call("view", <<>>)],
         [name |-> "echo",
          in |-> Call("view", <<Options(<<[k |-> "x", v |-> x], [k |-> "y", v |-> y]>>)>>)]>> :
       x \in vals, y \in vals }

\* part_002:512-525, index.ts:343-364  the record the k-th call stores.
HashRecord(v, c, k) ==
  [id |-> NthId(v, c.name, k), name |-> c.name, args |-> c.in.args,
   fn |-> CHOOSE f \in Functions : f.name = c.name, ctx |-> c.in.this,
   count |-> IF v = "promise" THEN k ELSE k - 1, has |-> FALSE, value |-> Undef]

HashInit ==
  /\ variant \in {"promise", "co"}
  /\ prefix = DefaultPrefix(variant)
  /\ globalCounter = 0
  /\ peers = <<>>
  /\ rawHelpers = AsMap({f \in Functions : f.name \in {"echo", "boom"}})
  /\ nameOrder = <<"echo", "boom">>
  /\ wrappedHelpers = rawHelpers
  /\ counter = 3
  /\ \E c \in HashCalls(variant) :
       /\ helperIds = IF variant = "promise"
                        THEN [k \in 1..3 |-> HashRecord(variant, c[k], k)] ELSE <<>>
       /\ stash = IF variant = "co"
                    THEN [k \in 1..3 |-> HashRecord(variant, c[k], k)] ELSE <<>>
       /\ issued = [k \in 1..3 |-> [id |-> NthId(variant, c[k].name, k),
                                    args |-> c[k].in.args, this |-> c[k].in.this]]
  /\ tasks = <<>>
  /\ last = [op |-> "call", ret |-> issued[3].id]
  /\ invoked = [k \in 1..3 |-> <<>>]
  /\ runs = [k \in 1..3 |-> [inv |-> 0, wr |-> 0, fail |-> 0]]
  /\ budget = [calls |-> 3, resolves |-> 0, regs |-> 1, resets |-> 0, gets |-> 0]

\* The keys the caller asks resolveId for: a token a call returned.
HashKeys == {IdStr(issued[i].id) : i \in 1..Len(issued)}

HashNext ==
  \/ \E key \in HashKeys : PResolveId(key)
  \/ \E key \in HashKeys : GStart("resolveId", key)
  \/ GRun
  \/ \E t \in 1..Len(tasks) : PInvoke(t)
  \/ \E t \in 1..Len(tasks) : PReject(t)
  \/ \E t \in 1..Len(tasks) : PSettle(t)
  \/ \E t \in 1..Len(tasks) : PEntry(t)

HashSpec == HashInit /\ [][HashNext]_vars

(***************************************************************************)
(* Two instances of one class in the same module, built with the same      *)
(* options and the same helpers.  The variables above are the fields of    *)
(* the first one, which makes one wrapped call and resolveId calls; the    *)
(* second one makes wrapped calls of its own and, in the co class, a       *)
(* reset and resolveId calls.                                              *)
(***************************************************************************)
MaxPeerCalls == 2   \* wrapped-helper invocations of the second instance

\* part_002:429-441 and index.ts:159-186  the fields of an instance after
\* construction; the co class numbers its instances (index.ts:181).
Instance(g) == [globalCounter |-> g, counter |-> 0, helperIds |-> <<>>, made |-> 0]

PeerInit ==
  /\ variant \in {"promise", "co"}
  /\ prefix = DefaultPrefix(variant)
  /\ globalCounter = 0
  /\ peers = <<Instance(1)>>
  /\ rawHelpers = AsMap({f \in Functions : f.name \in {"echo", "upper"}})
  /\ nameOrder = <<"echo", "upper">>
  /\ wrappedHelpers = rawHelpers
  /\ counter = 0
  /\ helperIds = <<>>
  /\ stash = <<>>
  /\ tasks = <<>>
  /\ last = Idle
  /\ issued = <<>>
  /\ invoked = <<>>
  /\ runs = <<>>
  /\ budget = [calls |-> MaxCalls - 1, resolves |-> 0, regs |-> 1, resets |-> 0,
               gets |-> 1]

\* part_002:512-525 and index.ts:342-364  a wrapped helper of instance p is
\* called: the record goes to that instance's helperIds in the promise
\* class and to the module's stash in the co class.
PeerCall(p, name, in) ==
  LET me == peers[p]
      num == IF variant = "promise" THEN me.counter + 1 ELSE me.counter
      id == IF variant = "promise" THEN PromiseId(prefix, name, num)
            ELSE createId(appendPrefix(prefix, me.globalCounter), num)
      token == [id |-> id, name |-> name, args |-> in.args, fn |-> wrappedHelpers[name],
                ctx |-> IF variant = "promise" /\ in.this = "none" THEN "{}" ELSE in.this,
                count |-> num, has |-> FALSE, value |-> Undef]
  IN
  /\ Quiet
  /\ me.made < MaxPeerCalls
  /\ peers' = [peers EXCEPT ![p].counter = @ + 1, ![p].made = @ + 1,
                            ![p].helperIds = IF variant = "promise"
                                               THEN Put(@, id, token) ELSE @]
  /\ stash' = IF variant = "co" THEN Put(stash, id, token) ELSE stash
  /\ invoked' = IF Len(stash') > Len(stash) THEN Append(invoked, <<>>) ELSE invoked
  /\ runs' = IF Len(stash') > Len(stash)
               THEN Append(runs, [inv |-> 0, wr |-> 0, fail |-> 0]) ELSE runs
  /\ last' = [op |-> "peerCall", ret |-> id]
  /\ UNCHANGED <<variant, prefix, globalCounter, rawHelpers, nameOrder, wrappedHelpers,
                 counter, helperIds, tasks, issued, budget>>

\* index.ts:386-390  reset() called on instance p: stash = {} is the
\* module's stash, this.counter = 0 its own counter.
PeerReset(p) ==
  /\ variant = "co" /\ Quiet
  /\ budget.resets < MaxResets
  /\ stash' = <<>>
  /\ peers' = [peers EXCEPT ![p].counter = 0]
  /\ invoked' = <<>>
  /\ runs' = <<>>
  /\ last' = [op |-> "peerReset"]
  /\ Spend("resets")
  /\ UNCHANGED <<variant, prefix, globalCounter, rawHelpers, nameOrder, wrappedHelpers,
                 counter, helperIds, tasks, issued>>

\* The keys resolveId is asked for: the tokens the first instance issued
\* and, in the co class, whatever the stash holds (resolveId of the second
\* instance reads the same stash with the same prefix, index.ts:440).
PeerKeys ==
  {IdStr(issued[i].id) : i \in 1..Len(issued)} \cup {IdStr(id) : id \in StoreIds}

PeerNext ==
  \/ WrappedCall
  \/ \E p \in 1..Len(peers), name \in {"echo"} :
       \E in \in Inputs(wrappedHelpers[name], {}) : PeerCall(p, name, in)
  \/ \E p \in 1..Len(peers) : PeerReset(p)
  \/ \E key \in PeerKeys : PResolveId(key)
  \/ \E key \in PeerKeys : GStart("resolveId", key)
  \/ GRun
  \/ \E t \in 1..Len(tasks) : PInvoke(t)
  \/ \E t \in 1..Len(tasks) : PSettle(t)

PeerSpec == PeerInit /\ [][PeerNext]_vars

(***************************************************************************)
(* Properties.                                                             *)
(***************************************************************************)
RECURSIVE Total(_)
Total(logs) == IF logs = <<>> THEN 0 ELSE Len(Head(logs)) + Total(Tail(logs))

\* The number of times any implementation has been applied.
Invocations == Total(invoked)

\* Whether a value is, or an array holds, a string that embeds an id.
RECURSIVE HasToken(_)
HasToken(v) ==
  \/ IsStr(v) /\ \E i \in 1..Len(v.s) : IsIdCell(v.s[i])
  \/ IsArr(v) /\ \E i \in 1..Len(v.a) : HasToken(v.a[i])

TokenFree(args) == \A i \in 1..Len(args) : ~HasToken(args[i])

\* The record the caller's last resolveId asked for, 0 if there is none.
Asked == IF last.op = "resolveId" THEN Find(Store, last.arg) ELSE 0

\* C1: over the lifetime of one instance, through wrapped calls, resolutions
\* and resets, no two wrapped-helper invocations return the same token.
C1_TokensUnique ==
  \A i, j \in 1..Len(issued) : i # j => issued[i].id # issued[j].id

\* C2: a wrapped call returns its token at once, adds exactly one record
\* keyed by that token which holds the call's arguments and receiver, leaves
\* every other record alone and applies no implementation; implementations
\* are applied only while a resolveId / resolveIds call is running.
C2_CallOnlyRecords ==
  [][ /\ Len(issued') > Len(issued) =>
           LET e == issued'[Len(issued')]
               rec == Store'[Len(Store')]
           IN /\ last'.op = "call" /\ last'.ret = e.id
              /\ Len(Store') = Len(Store) + 1
              /\ \A i \in 1..Len(Store) : Store'[i] = Store[i] /\ Store[i].id # e.id
              /\ rec.id = e.id /\ rec.args = e.args /\ ~rec.has
              /\ rec.ctx = IF variant = "promise" /\ e.this = "none" THEN "{}" ELSE e.this
              /\ invoked' = Append(invoked, <<>>)
      /\ Invocations' > Invocations => tasks # <<>>
    ]_vars

\* A call with a receiver and an argument has added the second record.
C2_Witness ==
  /\ last.op = "call" /\ Len(Store) = 2
  /\ issued[Len(issued)].this = "view"
  /\ Store[2].args = <<Str(<<Ch("a")>>)>> /\ Store[2].ctx = "view"
  /\ Invocations = 0

Original(id) ==
  issued[CHOOSE i \in 1..Len(issued) :
           /\ issued[i].id = id
           /\ \A j \in i + 1..Len(issued) : issued[j].id # id].args

\* What a promise-returning or callback-style implementation delivers when it
\* is called directly with the arguments of the call: the value of its
\* promise, or the value it passes to the callback behind its one parameter.
Delivers(tok) ==
  IF tok.fn.conv = "cb" /\ Len(Original(tok.id)) # 1
    THEN Err(<<Ch("cb is not a function")>>)
    ELSE Body(tok.fn, tok.ctx, Original(tok.id))

\* A resolveId of the token of an asynchronous helper called without tokens.
AskedAsync ==
  /\ Asked # 0
  /\ Store[Asked].fn.conv \in {"promise", "cb"}
  /\ TokenFree(Original(Store[Asked].id))
  /\ Delivers(Store[Asked]).ok

Truthy(v) == v \notin {Undef, Str(<<>>), Num(0)}

Normalised(v) == IF v \in {Undef, Str(<<>>)} THEN Str(<<>>) ELSE v

\* The deliveries the precise statement covers: not a 0 in the promise class,
\* not an undefined or empty value of a promise in the co class.
Covered(tok) ==
  \/ Truthy(Delivers(tok).v)
  \/ /\ Delivers(tok).v # Num(0)
     /\ (variant = "promise" \/ tok.fn.conv = "cb")

C5_SecondCallIsCached ==
  (Asked # 0 /\ last.prior # <<>>) =>
    /\ runs[Asked].inv = 0
    /\ last.settled => last.out = Ok(last.prior[1])

\* C6: during one resolveIds call every record's implementation is applied at
\* most once and its value is written at most once.
C6_OncePerResolveAll ==
  last.op = "resolveIds" =>
    \A r \in 1..Len(runs) : runs[r].inv <= 1 /\ runs[r].wr <= 1

\* What resolveId yields for a value a helper of record tok delivered.
Yield(tok, v) ==
  IF variant = "promise" THEN (IF v \in {Undef, Str(<<>>), Num(0)} THEN Str(<<>>) ELSE v)
  ELSE IF tok.fn.conv = "promise" THEN v
  ELSE IF v = Undef THEN Str(<<>>) ELSE v

\* What the implementation of record tok delivers when applied to args.
DeliversOn(tok, args) ==
  IF tok.fn.conv = "cb" /\ Len(args) # 1
    THEN Err(<<Ch("cb is not a function")>>)
    ELSE Body(tok.fn, tok.ctx, args)

\* The record whose token is the one argument of record r, 0 if r was not
\* called with exactly the token of a record called without tokens.
Inner(r) ==
  LET orig == Original(Store[r].id)
      q == IF Len(orig) = 1 /\ IsStr(orig[1]) /\ Len(orig[1].s) = 1
                /\ IsIdCell(orig[1].s[1])
             THEN Find(Store, orig[1]) ELSE 0
  IN IF q # 0 /\ q # r /\ TokenFree(Original(Store[q].id)) THEN q ELSE 0

\* C7: outer called with exactly the token of an earlier call of inner is
\* applied only after inner has run, to the value inner's token resolves to
\* (in its native type) in place of the token, and resolveId of outer's token
\* yields what outer makes of that value; when inner fails outer is not applied.
C7_OuterGetsInnerResult ==
  \A r \in 1..Len(Store) :
    Inner(r) # 0 =>
      LET q == Inner(r)
          d == Delivers(Store[q])
          e == DeliversOn(Store[r], <<Yield(Store[q], d.v)>>)
      IN /\ \A k \in 1..Len(invoked[r]) :
              /\ d.ok /\ Len(invoked[q]) >= 1
              /\ invoked[r][k].args[1] = Yield(Store[q], d.v)
         /\ (Asked = r /\ last.settled) =>
              /\ last.out.ok = (d.ok /\ e.ok)
              /\ last.out.ok => last.out.v = Yield(Store[r], e.v)

\* C8: an implementation called with an array argument receives an array of
\* the same length and order in which every token is replaced by a resolved
\* value and every other element is unchanged.
C8_ArrayKeepsShape ==
  \A r \in 1..Len(Store) : \A k \in 1..Len(invoked[r]) :
    LET orig == Original(Store[r].id)
        got == invoked[r][k].args
    IN (Len(orig) >= 1 /\ IsArr(orig[1])) =>
         /\ IsArr(got[1]) /\ Len(got[1].a) = Len(orig[1].a)
         /\ \A i \in 1..Len(orig[1].a) :
              IF HasToken(orig[1].a[i]) THEN ~HasToken(got[1].a[i])
              ELSE got[1].a[i] = orig[1].a[i]

\* What the token of record tok stands for once it has been resolved.
Resolved(tok) ==
  IF variant = "promise" THEN Yield(tok, tok.value)
  ELSE IF ~tok.has THEN Str(<<>>)
  ELSE IF tok.value.t = "promise"
    THEN (IF tok.value.r.ok THEN tok.value.r.v ELSE Undef)
  ELSE tok.value

\* A string with every id of the store replaced by the text of its value.
Substituted(str) ==
  Concat([i \in 1..Len(str) |->
            IF IsIdCell(str[i]) /\ Find(Store, Str(<<str[i]>>)) # 0
              THEN ToStr(Resolved(Store[Find(Store, Str(<<str[i]>>))]))
              ELSE <<str[i]>>])

\* C9: resolveIds of a string that embeds tokens in other text returns the
\* string with every occurrence of every token replaced by the token's
\* resolved value and every other character unchanged.
C9_EveryTokenSubstituted ==
  (/\ last.op = "resolveIds" /\ last.settled /\ last.out.ok /\ IsStr(last.arg)
   /\ \E i \in 1..Len(last.arg.s) : ~IsIdCell(last.arg.s[i])
   /\ \A r \in 1..Len(Store) : ~HasToken(Resolved(Store[r])))
    => last.out.v = Str(Substituted(last.arg.s))

\* The ids a value mentions.
RECURSIVE IdsOf(_)
IdsOf(v) ==
  IF IsStr(v) THEN {v.s[i].id : i \in {j \in 1..Len(v.s) : IsIdCell(v.s[j])}}
  ELSE IF IsArr(v) THEN UNION {IdsOf(v.a[i]) : i \in 1..Len(v.a)}
  ELSE {}

\* The ids reachable from a set of ids through the arguments the records
\* were called with and the values they hold.
RECURSIVE Reach(_, _)
Reach(ids, n) ==
  IF n = 0 THEN ids
  ELSE Reach(ids \cup UNION {
         UNION {IdsOf(Original(Store[r].id)[i]) : i \in 1..Len(Original(Store[r].id))}
           \cup IdsOf(Store[r].value) :
         r \in {x \in 1..Len(Store) : Store[x].id \in ids}}, n - 1)

\* C10: resolveIds(str) applies only the implementations of tokens that occur
\* in str or are reachable from them, and a str without tokens cannot fail.
C10_OnlyTokensOfStr ==
  (last.op = "resolveIds" /\ IsStr(last.arg)) =>
    /\ \A r \in 1..Len(Store) :
         runs[r].inv > 0 => Store[r].id \in Reach(IdsOf(last.arg), Len(Store))
    /\ (IdsOf(last.arg) = {} /\ last.settled) => last.out.ok

\* C11: resolveIds of a string that is exactly one token, whose record holds
\* a value, settles with that token's resolved value in its native type,
\* whatever other records the store holds.
C11_SingleTokenNative ==
  \A r \in 1..Len(Store) :
    (/\ last.op = "resolveIds" /\ last.settled
     /\ last.arg = IdStr(Store[r].id)
     /\ Store[r].has /\ ~HasToken(Resolved(Store[r])))
      => last.out = Ok(Resolved(Store[r]))

\* C12: resolveIds of a string without tokens settles successfully with the
\* string unchanged, whatever records the store holds.
C12_NoTokensUnchanged ==
  (/\ last.op = "resolveIds" /\ last.settled
   /\ IsStr(last.arg) /\ IdsOf(last.arg) = {})
    => last.out = Ok(last.arg)

\* Whether the message e contains the message sub.
Contains(e, sub) ==
  \E i \in 1..Len(e) - Len(sub) + 1 : SubSeq(e, i, i + Len(sub) - 1) = sub

\* Whether a failure names the helper and the token of record tok: in its
\* message, or as the record attached to the error.
Identifies(out, tok) ==
  \/ Contains(out.e, <<Ch(tok.name)>>) /\ Contains(out.e, <<IdCell(tok.id)>>)
  \/ "helper" \in DOMAIN out /\ out.helper = [name |-> tok.name, id |-> tok.id]

\* The records whose call, made directly, fails: the helper throws, rejects
\* or hands an error to its callback.
FailsDirectly ==
  {r \in 1..Len(Store) :
     TokenFree(Original(Store[r].id)) /\ ~Delivers(Store[r]).ok}

\* C13: resolveId on the token of a call whose helper throws, rejects or
\* calls back with an error settles as a failure whose error contains the
\* helper's message and identifies the helper's name and the token; so does
\* resolveIds on a string that is this token, for one of the failing helpers.
C13_FailureIdentifiesHelper ==
  /\ (Asked \in FailsDirectly /\ last.settled) =>
       /\ ~last.out.ok
       /\ Contains(last.out.e, Delivers(Store[Asked]).e)
       /\ Identifies(last.out, Store[Asked])
  /\ \A r \in FailsDirectly :
       (last.op = "resolveIds" /\ last.settled /\ last.arg = IdStr(Store[r].id)) =>
         /\ ~last.out.ok
         /\ \E q \in FailsDirectly :
              /\ Contains(last.out.e, Delivers(Store[q]).e)
              /\ Identifies(last.out, Store[q])

\* C14: a record R called with exactly the token of a call whose helper
\* fails is never applied and never holds a value, and resolveId on R's token
\* settles as a failure that identifies R.
C14_FailedArgumentAbortsRecord ==
  \A r \in 1..Len(Store) :
    (Inner(r) # 0 /\ Inner(r) \in FailsDirectly) =>
      /\ invoked[r] = <<>>
      /\ ~Store[r].has
      /\ (Asked = r /\ last.settled) =>
           ~last.out.ok /\ Identifies(last.out, Store[r])

\* The records whose resolution failed during the caller's current call.
FailedNow == {r \in 1..Len(Store) : runs[r].fail > 0}

\* C15: a resolveIds call in which the resolution of a record failed does
\* not settle with a value: it settles as a failure.
C15_NoPartialOutput ==
  (last.op = "resolveIds" /\ last.settled /\ FailedNow # {}) => ~last.out.ok

\* A resolveIds on text with two tokens has failed after one of the two
\* records was resolved and the other one failed.
C15_Witness ==
  /\ last.op = "resolveIds" /\ last.settled /\ ~last.out.ok
  /\ Cardinality(IdsOf(last.arg)) = 2
  /\ \E r \in FailedNow : Store[r].id \in IdsOf(last.arg)
  /\ \E q \in 1..Len(Store) :
       runs[q].wr > 0 /\ runs[q].fail = 0 /\ Store[q].id \in IdsOf(last.arg)

\* C16: a record whose resolution failed during the caller's current call
\* holds no value afterwards, so that the next resolveId applies its
\* implementation again.
C16_FailureNotCached ==
  (last.op \in {"resolveId", "resolveIds"} /\ last.settled) =>
    \A r \in FailedNow : ~Store[r].has

\* The caller's last resolveId was for a key under which the store holds no
\* record.
NoRecord ==
  /\ last.op = "resolveId"
  /\ last.arg \notin {IdStr(id) : id \in StoreIds}

\* The two "cannot resolve helper" errors.
IsNotFound(out) ==
  /\ ~out.ok
  /\ out.e[1] \in {Ch("AsyncHelpers#resolveId: cannot resolve helper with id"),
                   Ch("AsyncHelpers#resolveId: cannot resolve helper: ")}
  /\ Contains(out.e, ToStr(last.arg))

FailsAsNoRecord ==
  IF variant = "promise" \/ IsStr(last.arg)
    THEN IsNotFound(last.out)
    ELSE last.out = Err(KeyNotString)

AllEchoText ==
  \A r \in 1..Len(Store) :
    /\ Store[r].fn.body = "echo"
    /\ Len(Original(Store[r].id)) = 1 /\ IsStr(Original(Store[r].id)[1])

\* The text with every token replaced, to depth n, by the text its echoing
\* helper was called with.
RECURSIVE Deep(_, _)
Deep(s, n) ==
  Concat([i \in 1..Len(s) |->
            IF n > 0 /\ IsIdCell(s[i]) /\ Find(Store, Str(<<s[i]>>)) # 0
              THEN Deep(Original(s[i].id)[1].s, n - 1)
              ELSE <<s[i]>>])

\* C18: with echoing helpers called on text, the value a resolveIds call on
\* a store without values returns is, for every order in which the helpers
\* complete, the one it returns when each helper completes before the
\* helpers that use its token: the text with every token resolved.
C18_SameForEveryOrder ==
  (/\ last.op = "resolveIds" /\ last.settled /\ last.out.ok
   /\ AllEchoText)
    => last.out.v = Str(Deep(last.arg.s, Len(Store)))

(***************************************************************************)
(* C19.  reset() leaves the token store with no records and the token      *)
(* counter at the value it has after construction, and the name-to-helper  *)
(* mapping of the registered helpers (the functions and the wrappers       *)
(* already handed out) is the same after the call as before it.            *)
(***************************************************************************)
C19_ResetClearsStoreOnly ==
  [][budget'.resets # budget.resets =>
       /\ Store' = <<>>
       /\ counter' = 0
       /\ rawHelpers' = rawHelpers
       /\ wrappedHelpers' = wrappedHelpers]_vars

\* reset() has been called on an instance that has registered helpers and
\* had issued tokens.
C19_Witness ==
  /\ last.op = "reset"
  /\ issued # <<>>
  /\ rawHelpers # Empty
  /\ Store = <<>> /\ counter = 0

(***************************************************************************)
(* C20.  Wrapping is idempotent: asking again for the wrapped helper of a  *)
(* name returns the function the first request created.  Stated on two     *)
(* requests with nothing between them: the second returns, for every name  *)
(* the first returned a wrapped helper for, that same function.            *)
(***************************************************************************)
C20_WrapReturnsFirstWrapper ==
  [][(last.op = "get" /\ last'.op = "get" /\ budget'.gets # budget.gets) =>
       \A name \in DOMAIN last.ret : last'.ret[name] = last.ret[name]]_vars

(***************************************************************************)
(* C21.  A wrap call with a name that has no registered raw function, made *)
(* without a function of its own, fails with an error whose message names  *)
(* the missing helper, and so returns no wrapped function.                 *)
(***************************************************************************)
\* The step is a wrap call with a non-empty string as its name.
WrapsName == last'.op = "wrap" /\ budget' # budget /\ IsStr(last'.name) /\ last'.name.s # <<>>

C21_MissingHelperNotFound ==
  [][(WrapsName /\ Raw(KeyOf(last'.name)) = Undef /\ ~IsFn(last'.fn))
       => /\ ~last'.out.ok
          /\ \E i \in 1..Len(last'.out.e) : last'.out.e[i] = Ch(KeyOf(last'.name))]_vars

(***************************************************************************)
(* C22.  A define call that passes an implementation fails with a          *)
(* TypeError, and leaves the registry as it was, whenever the name is not  *)
(* a non-empty string or the implementation is not a function (0           *)
(* included); so does a define call whose only argument is a number.       *)
(***************************************************************************)
\* The step is a define call (helper / set) with arguments that are not a
\* name and a function.
InvalidDefine ==
  /\ last'.op = "define" /\ budget' # budget
  /\ \/ /\ last'.fn # Undef
        /\ \/ ~(IsStr(last'.name) /\ last'.name.s # <<>>)
           \/ ~IsFn(last'.fn)
     \/ last'.fn = Undef /\ last'.name.t = "number"

C22_InvalidDefineFails ==
  [][InvalidDefine =>
       /\ ~last'.out.ok /\ last'.out.e[1] = Ch("TypeError")
       /\ rawHelpers' = rawHelpers /\ wrappedHelpers' = wrappedHelpers]_vars

(***************************************************************************)
(* C23.  A define call that succeeds leaves its function registered under  *)
(* its name, the getter form returns the function registered under the     *)
(* name at that moment (so the latest one defined), no step of any         *)
(* operation removes a name from the registry, and a step changes the      *)
(* function registered under a name only when it is a define or wrap call  *)
(* made with that name.                                                    *)
(***************************************************************************)
\* The step is a helper / set call, or a wrapHelper / get({wrap: true}) call.
RegistryCall == last'.op \in {"define", "wrap"} /\ budget' # budget

\* The step is the getter form with a name: helper(name), get(name).
Getter ==
  /\ budget' # budget
  /\ \/ last'.op = "define" /\ variant = "promise"
     \/ last'.op = "getter"
  /\ IsStr(last'.name) /\ last'.fn = Undef

C23_DefineChangesOnlyItsName ==
  [][/\ (RegistryCall /\ last'.op = "define" /\ last'.out = Ok(This))
          => /\ KeyOf(last'.name) \in DOMAIN rawHelpers'
             /\ rawHelpers'[KeyOf(last'.name)] = last'.fn
     /\ (Getter /\ Raw(KeyOf(last'.name)) # Undef)
          => last'.out = Ok(Raw(KeyOf(last'.name)))
     /\ \A n \in DOMAIN rawHelpers :
          /\ n \in DOMAIN rawHelpers'
          /\ rawHelpers'[n] # rawHelpers[n] => RegistryCall /\ KeyOf(last'.name) = n]_vars

(***************************************************************************)
(* C24.  A wrap call without a name (wrapHelper(), get({wrap: true}))      *)
(* returns a mapping that holds a wrapped function for every name that has *)
(* a raw function registered, whatever define and wrap calls came before.  *)
(***************************************************************************)
C24_WrapAllCoversRegistry ==
  [][/\ (last'.op = "wrap" /\ budget' # budget /\ last'.name = Undef)
          => /\ last'.out.ok
             /\ \A n \in DOMAIN rawHelpers :
                  Raw(n) # Undef => n \in DOMAIN last'.out.v.m
     /\ (last'.op = "get" /\ budget' # budget)
          => \A n \in DOMAIN rawHelpers : n \in DOMAIN last'.ret]_vars

(***************************************************************************)
(* C25.  Every token starts with the prefix of the instance that made it,  *)
(* and two tokens made by instances with different prefixes are never the  *)
(* same text.                                                              *)
(***************************************************************************)
StartsWith(s, p) == Len(p) <= Len(s) /\ SubSeq(s, 1, Len(p)) = p

C25_PrefixSeparatesTokens ==
  /\ \A i \in 1..Len(issued) : StartsWith(issued[i].id, Chars(issued[i].by))
  /\ \A i, j \in 1..Len(issued) :
       issued[i].by # issued[j].by => issued[i].id # issued[j].id

\* What resolving value v gives when v is the token of a record whose own
\* arguments carry no token: the result of its helper; <<>> when the helper
\* fails.
ResolvedValue(v) ==
  LET k == Find(Store, v) IN
  IF Body(Store[k].fn, Store[k].ctx, issued[k].args).ok
    THEN <<Body(Store[k].fn, Store[k].ctx, issued[k].args).v>>
    ELSE <<>>

\* got is the hash orig with every token replaced by its resolved value.
HashResolved(orig, got) ==
  /\ Len(got) = Len(orig)
  /\ \A j \in 1..Len(orig) :
       /\ got[j].k = orig[j].k
       /\ IF Find(Store, orig[j].v) # 0
            THEN <<got[j].v>> = ResolvedValue(orig[j].v)
            ELSE got[j].v = orig[j].v

\* C26: whenever a helper was called with an options argument, the hash it
\* was invoked with is the hash of the call with every value that is a token
\* replaced by the resolved value of that token, and every other key and
\* value as it was.
C26_HashTokensResolved ==
  \A r \in 1..Len(invoked) : \A n \in 1..Len(invoked[r]) :
    \A i \in 1..Len(issued[r].args) :
      IsOptions(issued[r].args[i]) =>
        /\ IsOptions(invoked[r][n].args[i])
        /\ HashResolved(issued[r].args[i].hash, invoked[r][n].args[i].hash)

\* Whether a string value embeds the token of a record of the store.
EmbedsRecordToken(v) ==
  IsStr(v) /\ \E i \in 1..Len(v.s) : IsIdCell(v.s[i]) /\ Find(Store, Str(<<v.s[i]>>)) # 0

\* C27: the value a resolveId call returns, on a record's first resolution
\* or on a repeated one, embeds no token that has a record in the store.
C27_ReturnsNoRecordToken ==
  (last.op = "resolveId" /\ last.settled /\ last.out.ok) => ~EmbedsRecordToken(last.out.v)

\* What the record holds as its value, as a later read gives it back: a
\* promise the co class stored stands for what it settles with.
Memoized(r) == IF Store[r].has THEN <<Await(Store[r].value)>> ELSE <<>>

\* C28: once a resolveId(token) has succeeded with v, the record holds v as
\* its value, and a resolveId(token) made right after one that succeeded
\* returns the value that one returned.
C28_MemoizedIsReturned ==
  /\ (Asked # 0 /\ last.settled /\ last.out.ok) => Memoized(Asked) = <<last.out>>
  /\ (Asked # 0 /\ last.settled /\ last.prior # <<>>) => last.out = Ok(last.prior[1])

\* What the helper of record r delivered when it was last applied: the value
\* it returned, its promise settled with or it handed to its callback.
RawResult(r) ==
  LET n == Len(invoked[r])
      c == invoked[r][n]
  IN IF variant = "promise" THEN Apply(Store[r].fn, c.ctx, c.args)
     ELSE With(GApply(Store[r].fn, c.ctx, c.args, n),
               LAMBDA o : IF o.ok THEN Await(o.v) ELSE o)

\* C29: a resolveId call that applied the helper and succeeded returns ""
\* when the helper delivered undefined or "", never returns undefined, and
\* returns every other token-free result (0 for one) as the helper
\* delivered it.
C29_OnlyEmptyIsNormalised ==
  (/\ Asked # 0 /\ last.settled /\ last.out.ok
   /\ runs[Asked].inv > 0 /\ RawResult(Asked).ok) =>
    /\ last.out.v # Undef
    /\ RawResult(Asked).v \in {Undef, Str(<<>>)} => last.out.v = Str(<<>>)
    /\ (RawResult(Asked).v \notin {Undef, Str(<<>>)} /\ ~HasToken(RawResult(Asked).v))
         => last.out.v = RawResult(Asked).v

\* The store after the step, and whether the step is a reset.
StoreNext == IF variant = "promise" THEN helperIds' ELSE stash'

\* C30: a record that holds a value holds the same value after every step
\* that is a wrapped call or a step of a resolveId or resolveIds call.
C30_MemoizedValueIsStable ==
  [][\A r \in 1..Len(Store) :
       (Store[r].has /\ r <= Len(StoreNext) /\ StoreNext[r].id = Store[r].id)
         => StoreNext[r].has /\ StoreNext[r].value = Store[r].value]_vars

\* The completion callback the co class hands a callback-style helper behind
\* the arguments of the call.
OwnCallback(r) == IF variant = "co" /\ Store[r].fn.conv = "cb" THEN 1 ELSE 0

\* C31: every application of a record's helper, the first one or a later
\* one, gets the receiver the record captured and as many arguments as the
\* call had (a callback-style helper of the co class its callback behind
\* them), in their order, a token argument replaced and a token-free
\* argument as it was; and the record's stored arguments stay as many as
\* the call had.
C31_InvokedWithCapturedCall ==
  \A r \in 1..Len(Store) :
    /\ Len(Store[r].args) = Len(Original(Store[r].id))
    /\ \A k \in 1..Len(invoked[r]) :
         /\ invoked[r][k].ctx = Store[r].ctx
         /\ Len(invoked[r][k].args) = Len(Original(Store[r].id)) + OwnCallback(r)
         /\ \A i \in 1..Len(Original(Store[r].id)) :
              /\ Find(Store, Original(Store[r].id)[i]) # 0
                   => invoked[r][k].args[i] # Original(Store[r].id)[i]
              /\ ~HasToken(Original(Store[r].id)[i])
                   => invoked[r][k].args[i] = Original(Store[r].id)[i]

\* The caller's last call is a resolveIds on something that is no string.
NonStringCall == last.op = "resolveIds" /\ ~IsStr(last.arg)

\* C32: from the moment a resolveIds call is made on a value that is no
\* string, whatever the store holds, the call has failed and no helper is
\* applied on its behalf.
C32_NonStringFailsAtCall ==
  NonStringCall =>
    /\ last.settled /\ ~last.out.ok
    /\ \A r \in 1..Len(runs) : runs[r].inv = 0

\* The tokens issued before the reset: every wrapped call since the reset
\* has added one record to the emptied stash, so they are the tokens of all
\* calls but the last Len(stash).
PreReset ==
  IF variant = "co" /\ budget.resets > 0
    THEN {IdStr(issued[i].id) : i \in 1..(Len(issued) - Len(stash))}
    ELSE {}

\* C33: a resolveId on a token issued before the reset, made after the reset
\* and after any further wrapped calls, fails with "cannot resolve helper".
C33_PreResetTokenNotFound ==
  (last.op = "resolveId" /\ last.settled /\ last.arg \in PreReset) =>
    /\ ~last.out.ok
    /\ last.out.e = CannotResolve(last.arg)

\* The caller's last call is a resolveId or resolveIds call.
Resolving == last.op \in {"resolveId", "resolveIds"}

\* C34: with helpers that all return, settle their promise or call the
\* callback they were handed, every resolveId and resolveIds call that is
\* pending eventually settles, with a value or with an error.
C34_EveryCallSettles ==
  (Resolving /\ ~last.settled) ~> (Resolving /\ last.settled)

\* C35: two tokens that wrapped helpers of two different instances returned
\* are different texts, whatever the prefixes of the instances and the names
\* of the helpers.
C35_InstancesSeparateTokens ==
  \A i, j \in 1..Len(issued) :
    issued[i].inst # issued[j].inst => issued[i].id # issued[j].id

\* The records of the tokens the first instance issued.
Mine == {r \in 1..Len(Store) : \E i \in 1..Len(issued) : issued[i].id = Store[r].id}

\* C36: a wrapped call or a reset made on the second instance leaves every
\* record of a token the first instance issued in the store, as it was, so
\* that the token resolves afterwards as it did before.
C36_PeerLeavesMyRecords ==
  [][peers' # peers =>
       \A r \in Mine : \E q \in 1..Len(StoreNext) : StoreNext[q] = Store[r]]_vars

\* C37: a wrap call on a name that fails with "cannot find helper" leaves
\* the raw helpers and the wrapped helpers as they were: the same names in
\* the same order with the same functions.
C37_FailedWrapChangesNothing ==
  [][(/\ last'.op = "wrap" /\ budget' # budget
      /\ ~Falsy(last'.name) /\ ~last'.out.ok)
       => /\ rawHelpers' = rawHelpers
          /\ nameOrder' = nameOrder
          /\ wrappedHelpers' = wrappedHelpers]_vars

\* The records of helperIds that carry the id.
RecordsOf(id) == {r \in 1..Len(helperIds) : helperIds[r].id = id}

\* A step of a resolveId or resolveIds call: the call itself or one of its
\* continuations, up to and including the one that settles it.
ResolveStep == last'.op \in {"resolveId", "resolveIds"}

\* C38: in one instance of the promise class helperIds has as many records
\* as the counter says, the r-th of them made by the r-th wrapped call, and
\* every token a wrapped call returned has exactly one record; a step of
\* resolveId or resolveIds, whether the call succeeds or fails, changes
\* neither the counter nor the ids of the records.
C38_StoreMatchesCounter ==
  /\ [](variant = "promise" =>
          /\ Len(helperIds) = counter
          /\ \A r \in 1..Len(helperIds) : helperIds[r].count = r
          /\ \A i \in 1..Len(issued) : Cardinality(RecordsOf(issued[i].id)) = 1)
  /\ [][(variant = "promise" /\ ResolveStep) =>
          /\ counter' = counter
          /\ Len(helperIds') = Len(helperIds)
          /\ \A r \in 1..Len(helperIds) : helperIds'[r].id = helperIds[r].id]_vars

\* Two tokens were issued, a resolve call ran a helper and failed.
C38_Witness ==
  /\ variant = "promise" /\ counter = 2
  /\ last.op \in {"resolveId", "resolveIds"}
  /\ last.settled /\ ~last.out.ok
  /\ \E r \in 1..Len(invoked) : invoked[r] # <<>>

\* define(key, g) has overwritten the function of a name whose wrapper was
\* made before, for another function.
Overwritten(key) ==
  /\ key \in DOMAIN wrappedHelpers
  /\ Raw(key) # Undef
  /\ Raw(key) # wrappedHelpers[key]

\* C39: once define has overwritten the function of a name that already has
\* a wrapper, a wrap call on the name returns a wrapper of the earlier
\* function, and a token the wrapper issues afterwards has the earlier
\* function as the one its resolution invokes.
C39_WrapperKeepsFirstFunction ==
  [][\A key \in DOMAIN wrappedHelpers : Overwritten(key) =>
       /\ (/\ last'.op = "wrap" /\ budget' # budget
           /\ IsStr(last'.name) /\ KeyOf(last'.name) = key)
            => /\ last'.out.ok
               /\ last'.out.v.fn = wrappedHelpers[key]
               /\ wrappedHelpers'[key] = wrappedHelpers[key]
       /\ (/\ last'.op = "call" /\ Len(StoreNext) > Len(Store)
           /\ variant = "promise" /\ StoreNext[Len(StoreNext)].name = key)
            => StoreNext[Len(StoreNext)].fn = wrappedHelpers[key]]_vars

============================================================================
